---------------------------- MODULE Spec2Model ----------------------------
(***************************************************************************)
(* Device monitoring agent (device-monitoring-agent/agent.py) and the      *)
(* device endpoints of its backend (app.py).                                *)
(*                                                                          *)
(* Numbers: every float of the program (metric values, thresholds,          *)
(* response times in ms) is represented as an integer number of tenths,     *)
(* so 90 (%) is 900, 0.1 is 1 and 5000 ms is 50000.                         *)
(* Time of the API client is counted in units of 300 s.                     *)
(***************************************************************************)
EXTENDS Integers, Sequences, FiniteSets, TLC

VARIABLES
    \* ---- probes (DeviceMonitor and its subclasses) ----
    SNMP_AVAILABLE,        \* module flag set by the pysnmp import
    devType,               \* DeviceConfig.type of the device
    monitoring_methods,    \* DeviceConfig.monitoring_methods of the device
    consecutive_failures,  \* [kind -> DeviceMonitor.consecutive_failures]
    last,                  \* the DeviceMetrics returned by the last check_device
    lastCall,              \* history: which probe returned it, its counter before the
                           \* call and before the call preceding it (same probe),
                           \* and what failed in the check
    reference,             \* history: a single PingMonitor fed the ping outcomes of
                           \* the SNMP probe's fallback, and the sample it returned
    errRun,                \* history: consecutive errored invocations per probe
    \* ---- one polling cycle's aggregation (DeviceAgent) ----
    results,               \* the list `results` of monitor_device
    combined,              \* what combine_monitoring_results returned for it
    \* ---- the API client of the device's task, and the backend ----
    retry_attempts,        \* APIConfig.retry_attempts
    session,               \* APIClient.session: "none", "open"
    token,                 \* APIClient.token
    token_expires,         \* APIClient.token_expires: [set, at]
    now,                   \* datetime.now(), in units of 300 s
    db,                    \* the ids of the backend's devices table
    pc,                    \* where the device's task is
    attempt,               \* the loop variable of create_device / update_device
    op,                    \* the operation in progress and its update_data; history:
                           \* the token and the clock when update_device was called
    calllog,               \* history: the requests of this operation and their answers
    result,                \* what the last create_device / update_device returned
    atList,                \* history: the backend when the devices were last listed
    \* ---- the agent: start(), stop(), main() and one task per device ----
    running,               \* DeviceAgent.running
    task,                  \* [device -> where its monitor_device task is, whether a
                           \* cancel() is pending on it, and its history]
    startPc,               \* where start() is: "idle", "gather", "returned", "raised"
    gatherExc,             \* the exception set on the gather future: the first one a
                           \* child finished with, "none" before
    mainStopped,           \* the finally clause of main() has called stop()
    signalled,             \* history: _signal_handler has run
    \* ---- the agent: load_configuration and the polling loops in detail ----
    config,                \* the parsed agent_config.ini: [api, sections]
    loaded,                \* the sections load_configuration has gone through
    devices,               \* the keys of DeviceAgent.devices
    monitors,              \* DeviceAgent.monitors: [device -> list of probe kinds],
                           \* the empty list for a device without an entry
    counters,              \* [device -> [kind -> consecutive_failures of that monitor]]
    poll                   \* [device -> where its monitor_device is in the loop, the
                           \* list `results`, and the history of its steps]

probeVars ==
    <<SNMP_AVAILABLE, devType, monitoring_methods, consecutive_failures, last, lastCall,
      reference, errRun>>

combineVars == <<results, combined>>

clientVars ==
    <<retry_attempts, session, token, token_expires, now, db, pc, attempt, op, calllog,
      result, atList>>

agentVars == <<running, task, startPc, gatherExc, mainStopped, signalled>>

pollVars == <<config, loaded, devices, monitors, counters, poll>>

vars == <<probeVars, combineVars, clientVars, agentVars, pollVars>>

-----------------------------------------------------------------------------
(* Bounds of the model *)

\* errored invocations in a row that one probe is driven through
MaxRun == 4

\* the largest retry_attempts configured
MaxRetryAttempts == 3

\* rows the backend's devices table is let grow to
MaxBackendDevices == 2

\* how far the clock runs
MaxTime == 2

\* devices of the configuration, one task each
NumDevices == 2

\* polling cycles a task is followed through
MaxCycles == 2

\* iterations of one task that raise
MaxFaults == 1

-----------------------------------------------------------------------------
(* Data *)

None == "None"

Kinds == {"ping", "snmp", "http"}

DeviceTypes == {"router", "switch", "firewall", "wireless_ap", "load_balancer", "generic"}

Statuses == {"online", "warning", "critical", "offline"}

\* the monitoring_methods of the devices of create_default_config, and the
\* devices with a single probe
MethodLists == {<<"ping", "snmp">>, <<"ping", "http">>, <<"ping">>, <<"snmp">>, <<"http">>}

Range(seq) == {seq[i] : i \in DOMAIN seq}

max_failures == 3

\* DeviceConfig.__post_init__: load_configuration never passes thresholds,
\* so every device carries these defaults.
critical_thresholds == [cpu_usage |-> 900, memory_usage |-> 900, response_time |-> 50000]

warning_thresholds == [cpu_usage |-> 700, memory_usage |-> 750, response_time |-> 20000]

\* DeviceConfig.timeout (10 s) * 1000 ms, in tenths of a ms
TimeoutResponseTime == 100000

EmptyMetrics == [k \in {} |-> 0]

\* dict.update: the keys of both, the value of `b` where both have the key
DictUpdate(a, b) ==
    [k \in (DOMAIN a) \cup (DOMAIN b) |-> IF k \in DOMAIN b THEN b[k] ELSE a[k]]

\* dict.get(key, default)
DictGet(d, key, default) == IF key \in DOMAIN d THEN d[key] ELSE default

Truthy(error) == error # None /\ error # ""

-----------------------------------------------------------------------------
(* DeviceMonitor.determine_status *)

AnyCritical(metrics) ==
    \E metric \in DOMAIN metrics :
        /\ metric \in DOMAIN critical_thresholds
        /\ metrics[metric] >= critical_thresholds[metric]

AnyWarning(metrics) ==
    \E metric \in DOMAIN metrics :
        /\ metric \in DOMAIN warning_thresholds
        /\ metrics[metric] >= warning_thresholds[metric]

\* (mutation) the warning loop placed before the critical loop
ClassifyMetrics_WarningFirst(metrics, response_time) ==
    IF AnyWarning(metrics) THEN "warning"
    ELSE IF AnyCritical(metrics) THEN "critical"
    ELSE IF response_time >= DictGet(critical_thresholds, "response_time", 50000)
         THEN "critical"
    ELSE IF response_time >= DictGet(warning_thresholds, "response_time", 20000)
         THEN "warning"
    ELSE "online"

\* (mutation) a response time at the critical limit classified as warning
ClassifyMetrics_SlowIsWarning(metrics, response_time) ==
    IF AnyCritical(metrics) THEN "critical"
    ELSE IF AnyWarning(metrics) THEN "warning"
    ELSE IF response_time >= DictGet(warning_thresholds, "response_time", 20000)
         THEN "warning"
    ELSE "online"

\* the status returned for an error-free input
ClassifyMetrics(metrics, response_time) ==
    IF AnyCritical(metrics) THEN "critical"
    ELSE IF AnyWarning(metrics) THEN "warning"
    ELSE IF response_time >= DictGet(critical_thresholds, "response_time", 50000)
         THEN "critical"
    ELSE IF response_time >= DictGet(warning_thresholds, "response_time", 20000)
         THEN "warning"
    ELSE "online"

\* `for metric, value in metrics.items()` with the items visited in `order`:
\* whether the loop returns, i.e. reaches a metric at or above its threshold
RECURSIVE LoopReturns(_, _, _)
LoopReturns(order, metrics, thresholds) ==
    IF order = << >> THEN FALSE
    ELSE LET metric == Head(order) IN
         IF metric \in DOMAIN thresholds /\ metrics[metric] >= thresholds[metric]
         THEN TRUE
         ELSE LoopReturns(Tail(order), metrics, thresholds)

\* (mutation) one loop over the items testing both thresholds of each metric
RECURSIVE ClassifyInOrder_OnePass(_, _, _)
ClassifyInOrder_OnePass(order, metrics, response_time) ==
    IF order = << >>
    THEN IF response_time >= DictGet(critical_thresholds, "response_time", 50000)
         THEN "critical"
         ELSE IF response_time >= DictGet(warning_thresholds, "response_time", 20000)
         THEN "warning"
         ELSE "online"
    ELSE LET metric == Head(order) IN
         IF metric \in DOMAIN critical_thresholds
                /\ metrics[metric] >= critical_thresholds[metric]
         THEN "critical"
         ELSE IF metric \in DOMAIN warning_thresholds
                /\ metrics[metric] >= warning_thresholds[metric]
         THEN "warning"
         ELSE ClassifyInOrder_OnePass(Tail(order), metrics, response_time)

\* the code after the error test, the dict `metrics` iterating in `order`
ClassifyInOrder(order, metrics, response_time) ==
    IF LoopReturns(order, metrics, critical_thresholds) THEN "critical"
    ELSE IF LoopReturns(order, metrics, warning_thresholds) THEN "warning"
    ELSE IF response_time >= DictGet(critical_thresholds, "response_time", 50000)
         THEN "critical"
    ELSE IF response_time >= DictGet(warning_thresholds, "response_time", 20000)
         THEN "warning"
    ELSE "online"

\* (mutation) the reset on success left out
FailuresAfter_NoReset(cf, error) == IF Truthy(error) THEN cf + 1 ELSE cf

\* the counter after the call
FailuresAfter(cf, error) == IF Truthy(error) THEN cf + 1 ELSE 0

\* (mutation) a probe that failed before stays at warning on its first success
determine_status_SlowRecovery(cf, metrics, response_time, error) ==
    IF Truthy(error)
    THEN IF FailuresAfter(cf, error) >= max_failures THEN "offline" ELSE "warning"
    ELSE IF cf > 0 THEN "warning"
    ELSE ClassifyMetrics(metrics, response_time)

\* (mutation) the error of the check not looked at
determine_status_ErrorIgnored(cf, metrics, response_time, error) ==
    ClassifyMetrics(metrics, response_time)

\* the returned status; cf is the counter before the call
determine_status(cf, metrics, response_time, error) ==
    IF Truthy(error)
    THEN IF FailuresAfter(cf, error) >= max_failures THEN "offline" ELSE "warning"
    ELSE ClassifyMetrics(metrics, response_time)

-----------------------------------------------------------------------------
(* DeviceMetrics *)

Sample(status, metrics, response_time, error, method) ==
    [status |-> status, metrics |-> metrics, response_time |-> response_time,
     last_error |-> error, monitoring_method |-> method]

NoSample == Sample("unknown", EmptyMetrics, 0, None, "unknown")

-----------------------------------------------------------------------------
(* PingMonitor.check_device *)

\* what the ping subprocess did: exit code 0 with the values _parse_ping_output
\* extracts (parsed_time 0: no "time=" token), a non-zero exit code, the
\* wait_for timeout, or any other exception
PingOutcomes ==
    {[kind |-> "exit0", parsed_time |-> x[1], packet_loss |-> x[2], elapsed |-> x[3]] :
        x \in {<<234, 0, 310>>, <<20000, 0, 20100>>, <<0, 0, 310>>,
               <<0, 1000, 310>>, <<0, 1000, 50000>>}}
    \cup {[kind |-> k, parsed_time |-> 0, packet_loss |-> 1000, elapsed |-> 310] :
        k \in {"exit_nonzero", "timeout", "exception"}}

PingError(o) ==
    CASE o.kind = "exit0" -> None
      [] o.kind = "exit_nonzero" -> "Ping failed: "
      [] o.kind = "timeout" -> "Ping timeout after 10 seconds"
      [] OTHER -> "Ping error: "

PingResponseTime(o) ==
    IF o.kind \in {"timeout", "exception"} THEN TimeoutResponseTime
    ELSE IF o.kind = "exit0" /\ o.parsed_time > 0 THEN o.parsed_time
    ELSE o.elapsed

PingMetrics(o) ==
    IF o.kind = "exit0"
    THEN [latency |-> PingResponseTime(o),
          packet_loss |-> o.packet_loss,
          uptime |-> IF o.packet_loss < 1000 THEN 1000 ELSE 0]
    ELSE [latency |-> 0, packet_loss |-> 1000, uptime |-> 0]

\* what failed in the check: nothing, the subprocess (non-zero exit code), the
\* wait_for timeout, or anything else that raised
PingFailure(o) ==
    CASE o.kind = "exit0" -> "none"
      [] o.kind = "exit_nonzero" -> "subprocess"
      [] OTHER -> o.kind

\* the sample a PingMonitor whose counter is cf returns
PingSample(cf, o) ==
    Sample(determine_status(cf, PingMetrics(o), PingResponseTime(o), PingError(o)),
           PingMetrics(o), PingResponseTime(o), PingError(o), "ping")

-----------------------------------------------------------------------------
(* HTTPMonitor.check_device *)

\* field_mappings of _parse_http_response, in the dict's insertion order
field_mappings ==
    << <<"cpu", "cpu_usage">>, <<"cpu_usage", "cpu_usage">>, <<"cpu_percent", "cpu_usage">>,
       <<"memory", "memory_usage">>, <<"memory_usage", "memory_usage">>,
       <<"memory_percent", "memory_usage">>, <<"uptime", "uptime">>,
       <<"temperature", "temperature">>, <<"temp", "temperature">>,
       <<"load", "cpu_load">>, <<"load_avg", "cpu_load">> >>

\* the loop over field_mappings: entries 1..n applied to data, later entries
\* overwriting earlier ones of the same metric name
RECURSIVE MapFields(_, _)
MapFields(data, n) ==
    IF n = 0 THEN EmptyMetrics
    ELSE LET api_field == field_mappings[n][1]
             metric_name == field_mappings[n][2]
             before == MapFields(data, n - 1)
         IN  IF api_field \in DOMAIN data
             THEN DictUpdate(before, [k \in {metric_name} |-> data[api_field]])
             ELSE before

\* the device-specific fields; "interfaces.utilization" and "routing.changes"
\* stand for the nested dicts data['interfaces'] and data['routing']
TypeFields(type) ==
    CASE type = "router" ->
           << <<"interfaces.utilization", "interface_bandwidth">>,
              <<"routing.changes", "routing_table_changes">> >>
      [] type = "firewall" ->
           << <<"sessions", "active_sessions">>, <<"blocked", "blocked_traffic">>,
              <<"vpn", "vpn_tunnels">> >>
      [] OTHER -> << >>

_parse_http_response(type, data) ==
    LET fields == TypeFields(type)
        present == {i \in DOMAIN fields : fields[i][1] \in DOMAIN data}
        specific == [k \in {fields[i][2] : i \in present} |->
                        data[fields[CHOOSE i \in present : fields[i][2] = k][1]]]
    IN  DictUpdate(MapFields(data, Len(field_mappings)), specific)

\* a text body as the sequence of its "cpu:" / "memory:" lines that parse;
\* a later line of the same metric overwrites an earlier one
RECURSIVE _parse_text_response(_)
_parse_text_response(lines) ==
    IF lines = << >> THEN EmptyMetrics
    ELSE LET n == Len(lines)
             before == _parse_text_response(SubSeq(lines, 1, n - 1))
         IN  DictUpdate(before, [k \in {lines[n][1]} |-> lines[n][2]])

\* metric values the probes are fed: below both thresholds, at the cpu warning
\* threshold, at the memory warning threshold, at the critical thresholds
MetricValues == {500, 700, 750, 900}

\* wall-clock durations of a check: fast, at the warning limit, at the critical limit
Elapsed == {310, 20000, 50000}

JsonBodies ==
    {[cpu |-> v, memory_percent |-> w] : v \in MetricValues, w \in MetricValues}
    \cup {EmptyMetrics,
          [cpu_usage |-> 900],
          [memory |-> 500, uptime |-> 864000],
          [cpu |-> 500, cpu_percent |-> 900],
          [sessions |-> 1500, blocked |-> 250, vpn |-> 80, cpu |-> 500],
          ("interfaces.utilization" :> 800) @@ ("routing.changes" :> 50) @@ ("temp" :> 450)}

TextBodies ==
    {<< >>,
     << <<"cpu_usage", 700>> >>,
     << <<"cpu_usage", 500>>, <<"memory_usage", 900>> >>,
     << <<"cpu_usage", 900>>, <<"cpu_usage", 500>> >>}

\* what the GET did: 200 with a JSON body, 200 with a body that raises
\* JSONDecodeError and is then read as text, another status, the client
\* timeout, or any other exception (connection error, ContentTypeError, ...)
HttpOutcomes ==
    {[kind |-> "json", data |-> d, lines |-> << >>, elapsed |-> 310] : d \in JsonBodies}
    \cup {[kind |-> "json", data |-> d, lines |-> << >>, elapsed |-> e] :
        d \in {EmptyMetrics, [cpu_usage |-> 900], [cpu |-> 700, memory_percent |-> 500]},
        e \in Elapsed}
    \cup {[kind |-> "text", data |-> EmptyMetrics, lines |-> t, elapsed |-> 310] :
        t \in TextBodies}
    \cup {[kind |-> "status", data |-> EmptyMetrics, lines |-> << >>, elapsed |-> 310]}
    \cup {[kind |-> k, data |-> EmptyMetrics, lines |-> << >>, elapsed |-> 0] :
        k \in {"timeout", "exception"}}

\* (mutation) a response of any status taken as a success
HttpError_StatusIgnored(o) ==
    CASE o.kind \in {"json", "text", "status"} -> None
      [] o.kind = "timeout" -> "HTTP request timeout after 10 seconds"
      [] OTHER -> "HTTP monitoring failed: "

HttpError(o) ==
    CASE o.kind \in {"json", "text"} -> None
      [] o.kind = "status" -> "HTTP 503: Service Unavailable"
      [] o.kind = "timeout" -> "HTTP request timeout after 10 seconds"
      [] OTHER -> "HTTP monitoring failed: "

HttpResponseTime(o) ==
    IF o.kind \in {"timeout", "exception"} THEN TimeoutResponseTime ELSE o.elapsed

HttpMetrics(type, o) ==
    CASE o.kind = "json" -> _parse_http_response(type, o.data)
      [] o.kind = "text" -> _parse_text_response(o.lines)
      [] OTHER -> EmptyMetrics

\* what failed in the check: nothing, the body (200 with a body that is not
\* JSON), the status, the client timeout, or a transport error
HttpFailure(o) ==
    CASE o.kind = "json" -> "none"
      [] o.kind = "text" -> "body"
      [] OTHER -> o.kind

\* the sample an HTTPMonitor whose counter is cf returns
HttpSample(cf, type, o) ==
    Sample(determine_status(cf, HttpMetrics(type, o), HttpResponseTime(o), HttpError(o)),
           HttpMetrics(type, o), HttpResponseTime(o), HttpError(o), "http")

-----------------------------------------------------------------------------
(* SNMPMonitor.check_device *)

\* the result of one _snmp_get: None (error indication, error status or an
\* exception, all swallowed), or the string of the value read, numeric or not
ReadNone == [ok |-> FALSE, num |-> FALSE, v |-> 0]

ReadVal(n) == [ok |-> TRUE, num |-> TRUE, v |-> n]

ReadText == [ok |-> TRUE, num |-> FALSE, v |-> 0]

\* one step of _get_system_metrics: st is [m, raised]; float(read) raises
\* ValueError on a non-numeric string, which ends the function with the
\* metrics collected so far
SysStep(st, read, add) ==
    IF st.raised \/ ~read.ok THEN st
    ELSE IF ~read.num THEN [m |-> st.m, raised |-> TRUE]
    ELSE [m |-> DictUpdate(st.m, add), raised |-> FALSE]

_get_system_metrics(r) ==
    LET s0 == [m |-> EmptyMetrics, raised |-> FALSE]
        s1 == SysStep(s0, r.uptime, [uptime |-> r.uptime.v \div 10])
        cpu_usage == IF r.cisco_cpu.ok THEN r.cisco_cpu ELSE r.hr_cpu
        s2 == SysStep(s1, cpu_usage, [cpu_usage |-> cpu_usage.v * 10])
        both == r.memory_used.ok /\ r.memory_free.ok
        total_memory == r.memory_used.v + r.memory_free.v
        s3 == IF s2.raised \/ ~both THEN s2
              ELSE IF ~(r.memory_used.num /\ r.memory_free.num)
                   THEN [m |-> s2.m, raised |-> TRUE]
              ELSE IF total_memory > 0
                   THEN [m |-> DictUpdate(s2.m,
                            [memory_usage |-> (r.memory_used.v * 1000) \div total_memory]),
                         raised |-> FALSE]
              ELSE s2
    IN  s3.m

_get_router_metrics == [routing_table_changes |-> 50, packet_loss |-> 1, latency |-> 150]

_get_switch_metrics == [port_status |-> 950, broadcast_storms |-> 20, mac_table_size |-> 700]

_get_firewall_metrics ==
    [active_sessions |-> 1500, blocked_traffic |-> 250, vpn_tunnels |-> 80,
     threat_detection |-> 120]

_get_interface_metrics(r) ==
    IF r.if_number.ok
    THEN [interface_bandwidth |-> 800, error_packets |-> 100, traffic_per_port |-> 600]
    ELSE EmptyMetrics

device_defaults(type) ==
    CASE type = "router" ->
           [cpu_usage |-> 250, interface_bandwidth |-> 800, routing_table_changes |-> 50,
            packet_loss |-> 1, latency |-> 150, uptime |-> 995]
      [] type = "switch" ->
           [port_status |-> 950, traffic_per_port |-> 600, broadcast_storms |-> 20,
            mac_table_size |-> 700, error_packets |-> 100, uptime |-> 998]
      [] type = "firewall" ->
           [active_sessions |-> 1500, blocked_traffic |-> 250, vpn_tunnels |-> 80,
            cpu_usage |-> 300, memory_usage |-> 400, threat_detection |-> 120,
            uptime |-> 999]
      [] OTHER -> EmptyMetrics

\* defaults fill only the keys that are missing
_add_default_metrics(type, metrics) == DictUpdate(device_defaults(type), metrics)

TypeMetrics(type) ==
    CASE type = "router" -> _get_router_metrics
      [] type = "switch" -> _get_switch_metrics
      [] type = "firewall" -> _get_firewall_metrics
      [] OTHER -> EmptyMetrics

SnmpReadMetrics(type, r) ==
    DictUpdate(DictUpdate(_get_system_metrics(r), TypeMetrics(type)),
               _get_interface_metrics(r))

\* what the reads of one check returned. Every helper of check_device catches
\* Exception itself, so the except branch of check_device is entered by none
\* of these outcomes: raised is FALSE in all of them.
SnmpOutcomes ==
    {[uptime |-> u, cisco_cpu |-> c[1], hr_cpu |-> c[2],
      memory_used |-> m[1], memory_free |-> m[2],
      if_number |-> n, elapsed |-> 310, raised |-> FALSE] :
        u \in {ReadNone, ReadVal(8640000)},
        c \in {<<ReadNone, ReadNone>>, <<ReadVal(50), ReadNone>>, <<ReadVal(90), ReadNone>>,
               <<ReadNone, ReadVal(70)>>, <<ReadText, ReadVal(70)>>},
        m \in {<<ReadNone, ReadNone>>, <<ReadVal(3), ReadVal(1)>>, <<ReadVal(9), ReadVal(1)>>,
               <<ReadVal(1), ReadNone>>, <<ReadVal(0), ReadVal(0)>>},
        n \in {ReadNone, ReadVal(4)}}
    \cup
    {[uptime |-> ReadNone, cisco_cpu |-> ReadNone, hr_cpu |-> ReadNone,
      memory_used |-> ReadNone, memory_free |-> ReadNone,
      if_number |-> ReadNone, elapsed |-> e, raised |-> FALSE] : e \in Elapsed}

SnmpReads(o) ==
    {o.uptime, o.cisco_cpu, o.hr_cpu, o.memory_used, o.memory_free, o.if_number}

\* what failed in the check: nothing, some of the scalar reads, or every read
\* (no answer from the device at all)
SnmpFailure(o) ==
    IF \A r \in SnmpReads(o) : ~r.ok THEN "unreachable"
    ELSE IF \E r \in SnmpReads(o) : ~r.ok THEN "read"
    ELSE "none"

\* (mutation) a failed scalar read reported as a hard error
SnmpError_ReadFails(o) ==
    IF o.raised \/ (\E r \in SnmpReads(o) : ~r.ok) THEN "SNMP monitoring failed: " ELSE None

SnmpError(o) == IF o.raised THEN "SNMP monitoring failed: " ELSE None

SnmpResponseTime(o) == IF o.raised THEN TimeoutResponseTime ELSE o.elapsed

SnmpMetrics(type, o) ==
    _add_default_metrics(type, IF o.raised THEN EmptyMetrics ELSE SnmpReadMetrics(type, o))

\* the sample an SNMPMonitor whose counter is cf returns when pysnmp is there
SnmpSample(cf, type, o) ==
    Sample(determine_status(cf, SnmpMetrics(type, o), SnmpResponseTime(o), SnmpError(o)),
           SnmpMetrics(type, o), SnmpResponseTime(o), SnmpError(o), "snmp")

\* _fallback_to_ping: a PingMonitor constructed for this one call (its counter
\* starts at 0 and is dropped with it), the result retagged
_fallback_to_ping(o) ==
    [PingSample(0, o) EXCEPT !.monitoring_method = "snmp_fallback_ping"]

-----------------------------------------------------------------------------
(* DeviceAgent.combine_monitoring_results *)

\* (mutation) a merge that keeps the value already there
RECURSIVE MergeFirst_KeepFirst(_, _)
MergeFirst_KeepFirst(rs, n) ==
    IF n = 0 THEN EmptyMetrics
    ELSE DictUpdate(rs[n].metrics, MergeFirst_KeepFirst(rs, n - 1))

\* the loop `for result in results: all_metrics.update(result.metrics)` over
\* the first n results
RECURSIVE MergeFirst(_, _)
MergeFirst(rs, n) ==
    IF n = 0 THEN EmptyMetrics
    ELSE DictUpdate(MergeFirst(rs, n - 1), rs[n].metrics)

all_metrics(rs) == MergeFirst(rs, Len(rs))

status_priority == [offline |-> 0, critical |-> 1, warning |-> 2, online |-> 3]

\* status_priority.get(r.status, 3)
Priority(r) == DictGet(status_priority, r.status, 3)

\* (mutation) the first result taken as the base for the status too
worst_status_First(rs) == rs[1]

\* min(results, key=...): the first result of the lowest priority
worst_status(rs) ==
    LET i == CHOOSE i \in DOMAIN rs :
                 \A j \in DOMAIN rs :
                     \/ Priority(rs[i]) < Priority(rs[j])
                     \/ Priority(rs[i]) = Priority(rs[j]) /\ i <= j
    IN  rs[i]

RECURSIVE SumResponseTime(_, _)
SumResponseTime(rs, n) ==
    IF n = 0 THEN 0 ELSE SumResponseTime(rs, n - 1) + rs[n].response_time

\* (mutation) the errors collected last result first
RECURSIVE ErrorsFirst_Reversed(_, _)
ErrorsFirst_Reversed(rs, n) ==
    IF n = 0 THEN << >>
    ELSE IF Truthy(rs[n].last_error)
         THEN <<rs[n].last_error>> \o ErrorsFirst_Reversed(rs, n - 1)
    ELSE ErrorsFirst_Reversed(rs, n - 1)

\* str.join: the strings of strs concatenated, sep between two neighbours
RECURSIVE Join(_, _)
Join(sep, strs) ==
    IF strs = << >> THEN ""
    ELSE IF Len(strs) = 1 THEN strs[1]
    ELSE Join(sep, SubSeq(strs, 1, Len(strs) - 1)) \o sep \o strs[Len(strs)]

\* the errors of the results that have one, in order
RECURSIVE ErrorsFirst(_, _)
ErrorsFirst(rs, n) ==
    IF n = 0 THEN << >>
    ELSE IF Truthy(rs[n].last_error)
         THEN Append(ErrorsFirst(rs, n - 1), rs[n].last_error)
    ELSE ErrorsFirst(rs, n - 1)

\* what combine_monitoring_results returns for no results
NoCombined ==
    [none |-> TRUE, status |-> "unknown", metrics |-> EmptyMetrics,
     response_time |-> <<0, 1>>, last_error |-> None, monitoring_method |-> "unknown"]

\* The returned DeviceMetrics. response_time is the mean as the fraction
\* <<sum, count>>; last_error is '; '.join(errors) if errors else None.
combine_monitoring_results(rs) ==
    IF rs = << >> THEN NoCombined
    ELSE [none |-> FALSE,
          status |-> worst_status(rs).status,
          metrics |-> all_metrics(rs),
          response_time |-> <<SumResponseTime(rs, Len(rs)), Len(rs)>>,
          last_error |-> LET errors == ErrorsFirst(rs, Len(rs)) IN
                         IF errors # << >> THEN Join("; ", errors) ELSE None,
          monitoring_method |-> "combined"]

-----------------------------------------------------------------------------
(* The probes of one device, each checked any number of times *)

\* the monitors as setup_monitors leaves them, no check made yet
ProbesFresh ==
    /\ consecutive_failures = [k \in Kinds |-> 0]
    /\ last = NoSample
    /\ lastCall = [kind |-> None, failures_before |-> 0, prev_failures_before |-> 0,
                   failure |-> "none"]
    /\ reference = [consecutive_failures |-> 0, sample |-> NoSample]
    /\ errRun = [k \in Kinds |-> 0]

NoCycle == results = << >> /\ combined = NoCombined

\* no device task started: the APIConfig defaults, an empty backend
NoClient ==
    /\ retry_attempts = 3
    /\ session = "none"
    /\ token = None
    /\ token_expires = [set |-> FALSE, at |-> 0]
    /\ now = 0
    /\ db = {}
    /\ pc = "start"
    /\ attempt = 0
    /\ op = [name |-> "none", data |-> None]
    /\ calllog = << >>
    /\ result = "none"
    /\ atList = [id_in_backend |-> FALSE, created_before |-> FALSE]

Devices == 1..NumDevices

\* a device whose task start() has not created yet
NoTask == [pc |-> "none", cancel |-> FALSE, cut |-> "none", cycles |-> 0, faults |-> 0,
           session |-> "none"]

\* a DeviceAgent after __init__: not running, no tasks
NoAgent ==
    /\ running = FALSE
    /\ task = [d \in Devices |-> NoTask]
    /\ startPc = "idle"
    /\ gatherExc = "none"
    /\ mainStopped = FALSE
    /\ signalled = FALSE

\* a device whose monitor_device has not been started
NoPolling ==
    [pc |-> "none", cycles |-> 0, faults |-> 0, results |-> << >>, log |-> << >>,
     success |-> "none"]

\* a DeviceAgent whose load_configuration found no file: nothing loaded
NoPoll ==
    /\ config = [api |-> FALSE, sections |-> << >>]
    /\ loaded = 0
    /\ devices = {}
    /\ monitors = [d \in Devices |-> << >>]
    /\ counters = [d \in Devices |-> [k \in Kinds |-> 0]]
    /\ poll = [d \in Devices |-> NoPolling]

ProbeInit ==
    /\ SNMP_AVAILABLE \in BOOLEAN
    /\ devType \in DeviceTypes
    /\ monitoring_methods \in MethodLists
    /\ ProbesFresh
    /\ NoCycle
    /\ NoClient
    /\ NoAgent
    /\ NoPoll

\* check_device of the monitor that setup_monitors made for `kind` returns `sample` and leaves its counter at
\* cf_after; a run of errored invocations is followed up to MaxRun
Returned(kind, sample, cf_after, failure, ref) ==
    /\ kind \in Range(monitoring_methods)
    /\ Truthy(sample.last_error) => errRun[kind] < MaxRun
    /\ last' = sample
    /\ lastCall' = [kind |-> kind,
                    failures_before |-> consecutive_failures[kind],
                    prev_failures_before |->
                        IF lastCall.kind = kind THEN lastCall.failures_before ELSE 0,
                    failure |-> failure]
    /\ reference' = ref
    /\ consecutive_failures' = [consecutive_failures EXCEPT ![kind] = cf_after]
    /\ errRun' = [errRun EXCEPT ![kind] = IF Truthy(sample.last_error) THEN @ + 1 ELSE 0]
    /\ UNCHANGED <<SNMP_AVAILABLE, devType, monitoring_methods>>
    /\ UNCHANGED <<combineVars, clientVars, agentVars, pollVars>>

PingCheck ==
    \E o \in PingOutcomes :
        Returned("ping", PingSample(consecutive_failures["ping"], o),
                 FailuresAfter(consecutive_failures["ping"], PingError(o)),
                 PingFailure(o), reference)

HttpCheck ==
    \E o \in HttpOutcomes :
        Returned("http", HttpSample(consecutive_failures["http"], devType, o),
                 FailuresAfter(consecutive_failures["http"], HttpError(o)),
                 HttpFailure(o), reference)

SnmpCheck ==
    /\ SNMP_AVAILABLE
    /\ \E o \in SnmpOutcomes :
        Returned("snmp", SnmpSample(consecutive_failures["snmp"], devType, o),
                 FailuresAfter(consecutive_failures["snmp"], SnmpError(o)),
                 SnmpFailure(o), reference)

\* SNMPMonitor.check_device without pysnmp: the SNMPMonitor's own counter is
\* not touched
SnmpCheckFallback ==
    /\ ~SNMP_AVAILABLE
    /\ \E o \in PingOutcomes :
        Returned("snmp", _fallback_to_ping(o), consecutive_failures["snmp"],
                 PingFailure(o),
                 [consecutive_failures |->
                      FailuresAfter(reference.consecutive_failures, PingError(o)),
                  sample |-> PingSample(reference.consecutive_failures, o)])

ProbeNext == PingCheck \/ HttpCheck \/ SnmpCheck \/ SnmpCheckFallback

SpecProbe == ProbeInit /\ [][ProbeNext]_vars

-----------------------------------------------------------------------------
(* Properties of the classifier and the failure counters (SpecProbe) *)

Checked(kind) == lastCall.kind = kind

ErrorFree == lastCall.kind # None /\ ~Truthy(last.last_error)

\* C1: for every probe of the device, the n-th of a run of consecutive errored
\* check invocations that starts at a failure counter of 0 returns warning for
\* n = 1, 2 and offline for n >= 3.
C1_ErrorRunStatus ==
    \A k \in Kinds :
        (Checked(k) /\ errRun[k] >= 1) =>
            last.status = (IF errRun[k] >= 3 THEN "offline" ELSE "warning")

\* C2: an error-free sample in which some metric of the critical-threshold map
\* is at or above its critical threshold has status critical, whatever the
\* other metrics and the response time are.
C2_CriticalMetricWins ==
    (/\ ErrorFree
     /\ \E m \in (DOMAIN last.metrics) \cap (DOMAIN critical_thresholds) :
            last.metrics[m] >= critical_thresholds[m])
    => last.status = "critical"

\* C2 witness: critical is returned while another metric is at warning level only.
C2_Witness ==
    /\ ErrorFree
    /\ last.status = "critical"
    /\ \E m \in DOMAIN last.metrics : m \in DOMAIN critical_thresholds
            /\ last.metrics[m] >= critical_thresholds[m]
    /\ \E m \in DOMAIN last.metrics : m \in DOMAIN warning_thresholds
            /\ last.metrics[m] >= warning_thresholds[m]
            /\ last.metrics[m] < critical_thresholds[m]

NoBreach(metrics) ==
    /\ \A m \in (DOMAIN metrics) \cap (DOMAIN critical_thresholds) :
            metrics[m] < critical_thresholds[m]
    /\ \A m \in (DOMAIN metrics) \cap (DOMAIN warning_thresholds) :
            metrics[m] < warning_thresholds[m]

\* C3: an error-free sample in which no metric reaches a threshold and whose
\* response time is below the warning response-time limit has status online,
\* whatever the failure counter was before the call.
C3_NoBreachOnline ==
    (/\ ErrorFree
     /\ NoBreach(last.metrics)
     /\ last.response_time < warning_thresholds.response_time)
    => last.status = "online"

\* C3 witness: online is returned by a probe whose counter stood at 2 or more.
C3_Witness ==
    /\ ErrorFree
    /\ NoBreach(last.metrics)
    /\ last.response_time < warning_thresholds.response_time
    /\ lastCall.failures_before >= 2
    /\ last.status = "online"

\* C4: after an error-free check invocation the probe's failure counter is 0,
\* and the first errored invocation after a success returns warning.
C4_ResetOnSuccess ==
    \A k \in Kinds :
        /\ (Checked(k) /\ ErrorFree) => consecutive_failures[k] = 0
        /\ (Checked(k) /\ errRun[k] = 1) => last.status = "warning"

\* C4 witness: a probe that had failed 3 or more times in a row succeeded and
\* then failed once: the status is warning again.
C4_Witness ==
    /\ lastCall.kind # None
    /\ Truthy(last.last_error)
    /\ lastCall.failures_before = 0
    /\ lastCall.prev_failures_before >= max_failures
    /\ last.status = "warning"

SlowCritical == last.response_time >= critical_thresholds.response_time

\* C30 (as amended): for an error-free input, a metric at or above its
\* critical threshold gives critical, never warning; a response time at or
\* above the critical limit gives critical only when no metric is at or above
\* its warning threshold, and warning when one is (and none is critical).
C30_CriticalMetricOutranks ==
    ErrorFree =>
        /\ AnyCritical(last.metrics) => last.status # "warning"
        /\ (SlowCritical /\ ~AnyWarning(last.metrics)) => last.status = "critical"
        /\ (SlowCritical /\ AnyWarning(last.metrics) /\ ~AnyCritical(last.metrics))
               => last.status = "warning"

\* C30 witness: a response time at the critical limit with a metric at warning
\* level only: warning is returned
C30_Witness ==
    /\ ErrorFree
    /\ SlowCritical
    /\ AnyWarning(last.metrics)
    /\ ~AnyCritical(last.metrics)
    /\ last.status = "warning"

\* C30 as stated: whenever a critical-level condition holds, metric or
\* response time, warning is never returned.
C30_Original ==
    (ErrorFree /\ (AnyCritical(last.metrics) \/ SlowCritical)) => last.status # "warning"

-----------------------------------------------------------------------------
(* Properties of the probes' error handling (SpecProbe) *)

\* the transport and protocol failures of a check: subprocess failure or
\* timeout, connection error, non-success HTTP status, undecodable body, no
\* answer from the device
HardFailures == {"subprocess", "timeout", "exception", "status", "body", "unreachable"}

\* C15: check_device of every probe variant returns a sample for every
\* transport or protocol failure, and that sample's error field is set.
C15_FailureSetsError ==
    (lastCall.kind # None /\ lastCall.failure \in HardFailures) => Truthy(last.last_error)

\* C16: without pysnmp, every sample the SNMP probe returns equals in status,
\* metrics, response time and error the one a single PingMonitor fed the same
\* sequence of ping outcomes returns, and is tagged snmp_fallback_ping.
C16_FallbackMatchesPing ==
    (~SNMP_AVAILABLE /\ Checked("snmp")) =>
        /\ last.monitoring_method = "snmp_fallback_ping"
        /\ last.status = reference.sample.status
        /\ last.metrics = reference.sample.metrics
        /\ last.response_time = reference.sample.response_time
        /\ last.last_error = reference.sample.last_error

\* the metrics the threshold maps refer to (response_time is not a metric)
ThresholdMetrics ==
    ((DOMAIN critical_thresholds) \cup (DOMAIN warning_thresholds)) \ {"response_time"}

\* C17: with pysnmp, the metric map the SNMP probe passes to the classifier
\* holds every metric of the threshold maps (cpu_usage, memory_usage) and
\* every key of the type's defaults, for every device type and every set of
\* failing reads.
C17_CompleteMetrics ==
    (SNMP_AVAILABLE /\ Checked("snmp")) =>
        /\ ThresholdMetrics \subseteq DOMAIN last.metrics
        /\ DOMAIN device_defaults(devType) \subseteq DOMAIN last.metrics

\* C18: with pysnmp, a check in which scalar reads failed returns a sample
\* without error and leaves the failure counter where it was or lower; a
\* sample of the SNMP probe has an error only if no read was answered.
C18_ReadFailureSwallowed ==
    (SNMP_AVAILABLE /\ Checked("snmp")) =>
        /\ lastCall.failure = "read" =>
               /\ ~Truthy(last.last_error)
               /\ consecutive_failures["snmp"] <= lastCall.failures_before
        /\ Truthy(last.last_error) => lastCall.failure = "unreachable"

\* C18 witness: some reads failed, others were answered, no error in the sample
C18_Witness ==
    /\ SNMP_AVAILABLE
    /\ Checked("snmp")
    /\ lastCall.failure = "read"
    /\ last.last_error = None
    /\ "uptime" \in DOMAIN last.metrics
    /\ consecutive_failures["snmp"] = 0

\* C19: a sample the HTTP probe returns after a transport error, a timeout or
\* a response of another status than 200 has its error set and no metrics; a
\* sample of the HTTP probe with metrics has no error.
C19_HttpErrorNoMetrics ==
    Checked("http") =>
        /\ lastCall.failure \in {"exception", "timeout", "status"} =>
               /\ Truthy(last.last_error)
               /\ DOMAIN last.metrics = {}
        /\ DOMAIN last.metrics # {} => ~Truthy(last.last_error)

\* C19 witness: a response of another status, returned as an error sample
\* without metrics
C19_Witness ==
    /\ Checked("http")
    /\ lastCall.failure = "status"
    /\ Truthy(last.last_error)
    /\ DOMAIN last.metrics = {}

-----------------------------------------------------------------------------
(* One aggregation: the samples of a cycle, then combine_monitoring_results *)

\* every order of distinct probe kinds, the empty one included
MethodOrders ==
    {m \in UNION {[1..n -> Kinds] : n \in 0..Cardinality(Kinds)} :
        \A i, j \in DOMAIN m : m[i] = m[j] => i = j}

\* the outcomes the samples of a cycle are drawn from
CyclePingOutcomes ==
    {o \in PingOutcomes :
        \/ o.kind = "timeout"
        \/ o.kind = "exit0" /\ o.parsed_time = 234
        \/ o.kind = "exit0" /\ o.elapsed = 50000}

CycleHttpOutcomes ==
    {o \in HttpOutcomes :
        \/ o.kind = "status"
        \/ o.kind = "json" /\ o.elapsed = 310 /\
             o.data \in {[cpu_usage |-> 900], [memory |-> 500, uptime |-> 864000],
                         [cpu |-> 700, memory_percent |-> 500]}}

CycleSnmpOutcomes ==
    {o \in SnmpOutcomes :
        /\ o.elapsed = 310
        /\ o.uptime.ok = o.if_number.ok
        /\ <<o.cisco_cpu, o.memory_used>> \in
             {<<ReadNone, ReadNone>>, <<ReadVal(90), ReadNone>>, <<ReadVal(50), ReadVal(3)>>}
        /\ o.hr_cpu = ReadNone
        /\ o.memory_free.ok = o.memory_used.ok}

\* the counter of a probe when the cycle starts
CycleFailures == {0, 2}

CycleSamples(kind) ==
    CASE kind = "ping" ->
           {PingSample(cf, o) : cf \in CycleFailures, o \in CyclePingOutcomes}
      [] kind = "http" ->
           {HttpSample(cf, devType, o) : cf \in CycleFailures, o \in CycleHttpOutcomes}
      [] OTHER ->
           IF SNMP_AVAILABLE
           THEN {SnmpSample(cf, devType, o) : cf \in CycleFailures, o \in CycleSnmpOutcomes}
           ELSE {_fallback_to_ping(o) : o \in CyclePingOutcomes}

\* the lists `results` can be after the probes of `methods` were checked in order
RECURSIVE ResultLists(_)
ResultLists(methods) ==
    IF methods = << >> THEN {<< >>}
    ELSE {Append(r, s) : r \in ResultLists(SubSeq(methods, 1, Len(methods) - 1)),
                         s \in CycleSamples(methods[Len(methods)])}

CombineInit ==
    /\ SNMP_AVAILABLE \in BOOLEAN
    /\ devType \in DeviceTypes
    /\ monitoring_methods \in MethodOrders
    /\ ProbesFresh
    /\ results \in ResultLists(monitoring_methods)
    /\ combined = NoCombined
    /\ NoClient
    /\ NoAgent
    /\ NoPoll

Combine ==
    /\ combined = NoCombined
    /\ combined' = combine_monitoring_results(results)
    /\ UNCHANGED <<probeVars, results, clientVars, agentVars, pollVars>>

CombineNext == Combine

SpecCombine == CombineInit /\ [][CombineNext]_vars

-----------------------------------------------------------------------------
(* Properties of the aggregator (SpecCombine) *)

Aggregated == results # << >> /\ ~combined.none

\* the order of the statuses, worst first
StatusOrder == <<"offline", "critical", "warning", "online">>

Rank(status) == CHOOSE i \in DOMAIN StatusOrder : StatusOrder[i] = status

\* C5: the status of the aggregated sample of a non-empty list is the worst
\* status among the samples under offline < critical < warning < online.
C5_WorstStatus ==
    Aggregated =>
        /\ \E i \in DOMAIN results : combined.status = results[i].status
        /\ \A i \in DOMAIN results : Rank(combined.status) <= Rank(results[i].status)

\* C5 witness: the worst status is not the first sample's.
C5_Witness ==
    /\ Aggregated
    /\ Len(results) >= 2
    /\ combined.status # results[1].status
    /\ \E i \in DOMAIN results : i > 1 /\ combined.status = results[i].status

\* C6: the keys of the aggregated metric map are the union of the samples'
\* keys, and a key has the value of the last sample, in probe order, that has it.
C6_MetricUnionLastWins ==
    Aggregated =>
        /\ DOMAIN combined.metrics = UNION {DOMAIN results[i].metrics : i \in DOMAIN results}
        /\ \A k \in DOMAIN combined.metrics :
             \E i \in DOMAIN results :
                 /\ k \in DOMAIN results[i].metrics
                 /\ \A j \in DOMAIN results : k \in DOMAIN results[j].metrics => j <= i
                 /\ combined.metrics[k] = results[i].metrics[k]

\* C6 witness: two samples disagree on a key and the later value is kept.
C6_Witness ==
    /\ Aggregated
    /\ \E i, j \in DOMAIN results : \E k \in DOMAIN results[i].metrics :
         /\ i < j
         /\ k \in DOMAIN results[j].metrics
         /\ results[i].metrics[k] # results[j].metrics[k]
         /\ \A l \in DOMAIN results : k \in DOMAIN results[l].metrics => l <= j
         /\ combined.metrics[k] = results[j].metrics[k]

-----------------------------------------------------------------------------
(* APIClient and the backend it talks to *)

\* the id the agent knows the device by (its config section), and the ids
\* generate_device_id makes up in the backend
ConfigId == [origin |-> "config", n |-> 1]

GeneratedId(n) == [origin |-> "generated", n |-> n]

\* token_expires = now + expires_in - 300 s, in units of 300 s
TokenBuffer == 1

\* data.get('expires_in', 24 * 3600), in units of 300 s
DefaultExpiresIn == 288

\* what POST /login answers: 200 with a token and an expires_in (short, the
\* default), or anything else (401, 500, no connection,
\* a body without 'token'), for all of which authenticate returns False
LoginResponses ==
    {[ok |-> TRUE, expires_in |-> e] : e \in {2, DefaultExpiresIn}}
    \cup {[ok |-> FALSE, expires_in |-> 0]}

NoExpiry == [set |-> FALSE, at |-> 0]

Event(req, resp, auth, data) == [req |-> req, resp |-> resp, auth |-> auth, data |-> data]

\* _get_headers: the Authorization header is there when a token is
HasAuthorization == token # None

\* (mutation) the expiry of the token not looked at
NeedsAuthentication_NoExpiry == token = None

\* _ensure_authenticated: whether it calls authenticate
NeedsAuthentication == token = None \/ (token_expires.set /\ now >= token_expires.at)

\* (mutation) a failed login drops the token held
Authenticate_DropsOnFailure(r) ==
    /\ token' = IF r.ok THEN "token" ELSE None
    /\ token_expires' = IF r.ok THEN [set |-> TRUE, at |-> now + r.expires_in - TokenBuffer]
                        ELSE NoExpiry
    /\ calllog' = Append(calllog, Event("LOGIN", IF r.ok THEN "200" ELSE "failed", FALSE, None))

\* authenticate with the login answered r: token and expiry after it, the
\* request added to the log of the call
Authenticate(r) ==
    /\ token' = IF r.ok THEN "token" ELSE token
    /\ token_expires' = IF r.ok THEN [set |-> TRUE, at |-> now + r.expires_in - TokenBuffer]
                        ELSE token_expires
    /\ calllog' = Append(calllog, Event("LOGIN", IF r.ok THEN "200" ELSE "failed", FALSE, None))

\* _ensure_authenticated at the head of get_devices, create_device, update_device
EnsureAuthenticated(at, next) ==
    /\ pc = at
    /\ pc' = next
    /\ IF NeedsAuthentication
       THEN \E r \in LoginResponses : Authenticate(r)
       ELSE UNCHANGED <<token, token_expires, calllog>>

\* Answers to a request of the API. 200 is only given to a request that
\* carries a bearer token (require_auth); a PUT also needs the id to be in the
\* devices table (404 otherwise). "json" is any other status with a JSON body
\* (401 aside), "nojson" one whose body response.json() cannot decode,
\* "exception" a transport error or timeout.
PutResponses ==
    {"401", "json", "nojson", "exception"}
    \cup (IF HasAuthorization /\ ConfigId \in db THEN {"200"} ELSE {})

GetResponses ==
    {"401", "json", "exception"} \cup (IF HasAuthorization THEN {"200"} ELSE {})

\* "committed": the row was inserted and the answer was lost on the way
PostResponses ==
    {"401", "json", "nojson", "exception"}
    \cup (IF HasAuthorization /\ Cardinality(db) < MaxBackendDevices
          THEN {"200", "committed"} ELSE {})

\* the statuses update_device is called with
UpdateData == {"online", "offline"}

NoOp == [name |-> "none", data |-> None]

ClientFrame == UNCHANGED <<probeVars, combineVars, agentVars, pollVars>>

\* a new APIClient (__init__) in a new process; the backend is as it is
ClientInit ==
    /\ retry_attempts \in 0..MaxRetryAttempts
    /\ session = "none"
    /\ token = None
    /\ token_expires = NoExpiry
    /\ now = 0
    /\ db \in {{}, {ConfigId}}
    /\ pc = "start"
    /\ attempt = 0
    /\ op = NoOp
    /\ calllog = << >>
    /\ result = "none"
    /\ atList = [id_in_backend |-> FALSE, created_before |-> FALSE]

\* __aenter__: the session, then authenticate
AEnter ==
    /\ pc = "start"
    /\ pc' = "get_auth"
    /\ session' = "open"
    /\ op' = [name |-> "ensure", data |-> None]
    /\ \E r \in LoginResponses : Authenticate(r)
    /\ UNCHANGED <<retry_attempts, now, db, attempt, result, atList>>
    /\ ClientFrame

\* ---- ensure_device_exists: get_devices, then create_device if not listed ----

GetEnsureAuth ==
    /\ EnsureAuthenticated("get_auth", "get")
    /\ UNCHANGED <<retry_attempts, session, now, db, attempt, op, result, atList>>
    /\ ClientFrame

\* The rows under generated ids are those create_device inserted for this
\* device: the table starts with no row or with the row of ConfigId.
Created == db \ {ConfigId} # {}

\* what get_devices returns for an answer: the rows on 200, [] otherwise
DevicesReturned(resp) == IF resp = "200" THEN db ELSE {}

\* device_exists of ensure_device_exists
device_exists(listed) == \E d \in listed : d = ConfigId

GetDevices ==
    /\ pc = "get"
    /\ \E resp \in GetResponses :
        /\ calllog' = Append(calllog, Event("GET", resp, HasAuthorization, None))
        /\ pc' = IF device_exists(DevicesReturned(resp)) THEN "loop" ELSE "create_auth"
    /\ atList' = [id_in_backend |-> ConfigId \in db, created_before |-> Created]
    /\ UNCHANGED <<retry_attempts, session, token, token_expires, now, db, attempt, op,
                   result>>
    /\ ClientFrame

CreateEnsureAuth ==
    /\ EnsureAuthenticated("create_auth", "create")
    /\ attempt' = 0
    /\ UNCHANGED <<retry_attempts, session, now, db, op, result, atList>>
    /\ ClientFrame

\* what create_device does with the answer to its POST
CreateOn(resp) ==
    CASE resp = "200" -> "return_true"
      [] resp \in {"401", "json"} -> "return_false"
      [] OTHER -> "retry"

\* create_device of the backend: a row under a generated id
Inserted == db \cup {GeneratedId(Cardinality(db \ {ConfigId}) + 1)}

CreatePost ==
    /\ pc = "create"
    /\ attempt < retry_attempts
    /\ \E resp \in PostResponses :
        /\ calllog' = Append(calllog, Event("POST", resp, HasAuthorization, None))
        /\ db' = IF resp \in {"200", "committed"} THEN Inserted ELSE db
        /\ CASE CreateOn(resp) = "return_true" ->
                  pc' = "loop" /\ result' = "True" /\ UNCHANGED attempt
             [] CreateOn(resp) = "return_false" ->
                  pc' = "loop" /\ result' = "False" /\ UNCHANGED attempt
             [] OTHER ->
                  /\ UNCHANGED result
                  /\ IF attempt < retry_attempts - 1
                     THEN pc' = "create_sleep" /\ UNCHANGED attempt
                     ELSE pc' = "create" /\ attempt' = attempt + 1
    /\ UNCHANGED <<retry_attempts, session, token, token_expires, now, op, atList>>
    /\ ClientFrame

\* asyncio.sleep(retry_delay), then the next attempt
CreateSleep ==
    /\ pc = "create_sleep"
    /\ pc' = "create"
    /\ attempt' = attempt + 1
    /\ calllog' = Append(calllog, Event("SLEEP", None, FALSE, None))
    /\ UNCHANGED <<retry_attempts, session, token, token_expires, now, db, op, result,
                   atList>>
    /\ ClientFrame

\* the for loop is over: return False
CreateExhausted ==
    /\ pc = "create"
    /\ attempt >= retry_attempts
    /\ pc' = "loop"
    /\ result' = "False"
    /\ UNCHANGED <<retry_attempts, session, token, token_expires, now, db, attempt, op,
                   calllog, atList>>
    /\ ClientFrame

\* ---- update_device, called once per cycle of monitor_device ----

UpdateBegin ==
    /\ pc = "loop"
    /\ pc' = "update_auth"
    /\ \E d \in UpdateData :
        op' = [name |-> "update", data |-> d,
               had_token |-> token # None,
               before_expiry |-> token_expires.set /\ now < token_expires.at]
    /\ calllog' = << >>
    /\ attempt' = 0
    /\ result' = "none"
    /\ UNCHANGED <<retry_attempts, session, token, token_expires, now, db, atList>>
    /\ ClientFrame

UpdateEnsureAuth ==
    /\ EnsureAuthenticated("update_auth", "update")
    /\ UNCHANGED <<retry_attempts, session, now, db, attempt, op, result, atList>>
    /\ ClientFrame

\* (mutation) a 401 handled like any other error status
UpdateOn_401Fails(resp) ==
    CASE resp = "200" -> "return_true"
      [] resp \in {"401", "json"} -> "return_false"
      [] OTHER -> "retry"

\* what update_device does with the answer to its PUT
UpdateOn(resp) ==
    CASE resp = "200" -> "return_true"
      [] resp = "401" -> "reauth"
      [] resp = "json" -> "return_false"
      [] OTHER -> "retry"

UpdatePut ==
    /\ pc = "update"
    /\ attempt < retry_attempts
    /\ \E resp \in PutResponses :
        /\ calllog' = Append(calllog, Event("PUT", resp, HasAuthorization, op.data))
        /\ CASE UpdateOn(resp) = "return_true" ->
                  pc' = "loop" /\ result' = "True" /\ UNCHANGED attempt
             [] UpdateOn(resp) = "return_false" ->
                  pc' = "loop" /\ result' = "False" /\ UNCHANGED attempt
             [] UpdateOn(resp) = "reauth" ->
                  pc' = "update_reauth" /\ UNCHANGED <<result, attempt>>
             [] OTHER ->
                  /\ UNCHANGED result
                  /\ IF attempt < retry_attempts - 1
                     THEN pc' = "update_sleep" /\ UNCHANGED attempt
                     ELSE pc' = "update" /\ attempt' = attempt + 1
    /\ UNCHANGED <<retry_attempts, session, token, token_expires, now, db, op, atList>>
    /\ ClientFrame

\* whether this call has already re-authenticated after a 401
Reauthenticated ==
    \E i \in DOMAIN calllog :
        i > 1 /\ calllog[i].req = "LOGIN" /\ calllog[i - 1].resp = "401"

\* (mutation) one re-authentication per call, later 401s only retried
UpdateReauth_OncePerCall ==
    /\ pc = "update_reauth"
    /\ pc' = "update"
    /\ attempt' = attempt + 1
    /\ IF Reauthenticated
       THEN UNCHANGED <<token, token_expires, calllog>>
       ELSE \E r \in LoginResponses : Authenticate(r)
    /\ UNCHANGED <<retry_attempts, session, now, db, op, result, atList>>
    /\ ClientFrame

\* (mutation) the 401 branch repeats the attempt without using it up
UpdateReauth_SameAttempt ==
    /\ pc = "update_reauth"
    /\ pc' = "update"
    /\ \E r \in LoginResponses : Authenticate(r)
    /\ UNCHANGED <<retry_attempts, session, now, db, attempt, op, result, atList>>
    /\ ClientFrame

\* the 401 branch: authenticate, then `continue`
UpdateReauth ==
    /\ pc = "update_reauth"
    /\ pc' = "update"
    /\ attempt' = attempt + 1
    /\ \E r \in LoginResponses : Authenticate(r)
    /\ UNCHANGED <<retry_attempts, session, now, db, op, result, atList>>
    /\ ClientFrame

UpdateSleep ==
    /\ pc = "update_sleep"
    /\ pc' = "update"
    /\ attempt' = attempt + 1
    /\ calllog' = Append(calllog, Event("SLEEP", None, FALSE, None))
    /\ UNCHANGED <<retry_attempts, session, token, token_expires, now, db, op, result,
                   atList>>
    /\ ClientFrame

UpdateExhausted ==
    /\ pc = "update"
    /\ attempt >= retry_attempts
    /\ pc' = "loop"
    /\ result' = "False"
    /\ UNCHANGED <<retry_attempts, session, token, token_expires, now, db, attempt, op,
                   calllog, atList>>
    /\ ClientFrame

\* asyncio.sleep(poll_interval) between two cycles: time passes
Tick ==
    /\ pc = "loop"
    /\ now < MaxTime
    /\ now' = now + 1
    /\ UNCHANGED <<retry_attempts, session, token, token_expires, db, pc, attempt, op,
                   calllog, result, atList>>
    /\ ClientFrame

\* the service is restarted (service.sh restart, systemd): a new process, a
\* new APIClient; the backend's table stays
Restart ==
    /\ pc = "loop"
    /\ pc' = "start"
    /\ session' = "none"
    /\ token' = None
    /\ token_expires' = NoExpiry
    /\ attempt' = 0
    /\ op' = NoOp
    /\ calllog' = << >>
    /\ result' = "none"
    /\ UNCHANGED <<retry_attempts, now, db, atList>>
    /\ ClientFrame

ClientNext ==
    \/ AEnter \/ GetEnsureAuth \/ GetDevices
    \/ CreateEnsureAuth \/ CreatePost \/ CreateSleep \/ CreateExhausted
    \/ UpdateBegin \/ UpdateEnsureAuth \/ UpdatePut \/ UpdateReauth \/ UpdateSleep
    \/ UpdateExhausted
    \/ Tick \/ Restart

ClientSpecInit ==
    /\ SNMP_AVAILABLE = FALSE
    /\ devType = "generic"
    /\ monitoring_methods = <<"ping">>
    /\ ProbesFresh
    /\ NoCycle
    /\ NoAgent
    /\ NoPoll
    /\ ClientInit

SpecClient == ClientSpecInit /\ [][ClientNext]_vars

-----------------------------------------------------------------------------
(***************************************************************************)
(* Properties of the API client (SpecClient).  calllog is the sequence of  *)
(* requests and sleeps of the operation in progress (or of the one that    *)
(* returned last): ensure_device_exists or one update_device call.         *)
(***************************************************************************)

UpdateCall == op.name = "update"
EnsureCall == op.name = "ensure"
CallReturned == pc = "loop"

Puts == {i \in DOMAIN calllog : calllog[i].req = "PUT"}
FirstPut == CHOOSE i \in Puts : \A j \in Puts : i <= j
FirstPutUnauthorized == UpdateCall /\ Puts # {} /\ calllog[FirstPut].resp = "401"

\* after the first PUT: one authenticate, then the same update again, and
\* True returned when that second PUT is answered 200
ReauthThenResend ==
    LET f == FirstPut IN
    /\ Len(calllog) > f => calllog[f + 1].req = "LOGIN"
    /\ Len(calllog) > f + 1 =>
           /\ calllog[f + 2].req = "PUT"
           /\ calllog[f + 2].data = calllog[f].data
    /\ CallReturned =>
           /\ Len(calllog) >= f + 2
           /\ calllog[f + 2].resp = "200" => result = "True"

\* C7 (as amended): for every retry_attempts of at least 2, when the first PUT
\* of an update_device call is answered 401 the client calls authenticate()
\* exactly once and then sends the same update again, and update_device
\* returns True if that second PUT is answered 200.
C7_ReauthThenResend ==
    (retry_attempts >= 2 /\ FirstPutUnauthorized) => ReauthThenResend

\* an update_device call whose first PUT was answered 401 and whose second,
\* sent after the re-authentication, was answered 200
C7_Witness ==
    /\ retry_attempts >= 2
    /\ FirstPutUnauthorized
    /\ CallReturned
    /\ Len(calllog) = FirstPut + 2
    /\ calllog[FirstPut + 1].req = "LOGIN"
    /\ calllog[FirstPut + 2].resp = "200"
    /\ result = "True"

\* C7 as stated: the same for every retry_attempts of at least 1.
C7_Original ==
    (retry_attempts >= 1 /\ FirstPutUnauthorized) => ReauthThenResend

\* the re-authentications of the call: the LOGINs that follow a 401
Reauths ==
    {i \in DOMAIN calllog :
        i > 1 /\ calllog[i].req = "LOGIN" /\ calllog[i - 1].resp = "401"}

\* C8 (as amended): within one update_device call every PUT answered 401 is
\* followed by exactly one authenticate() before the retry loop continues, a
\* LOGIN is only sent at the head of the call or right after a 401, and the
\* call returns True or False: it does not end on the unauthorized answer
\* with anything else.
C8_ReauthPerUnauthorized ==
    UpdateCall =>
        /\ \A i \in DOMAIN calllog :
               (calllog[i].req = "PUT" /\ calllog[i].resp = "401") =>
                   IF i < Len(calllog)
                   THEN calllog[i + 1].req = "LOGIN"
                   ELSE pc = "update_reauth"
        /\ \A i \in DOMAIN calllog :
               (calllog[i].req = "LOGIN" /\ i > 1) =>
                   /\ calllog[i - 1].req = "PUT"
                   /\ calllog[i - 1].resp = "401"
        /\ CallReturned => result \in {"True", "False"}

\* a call in which two attempts were answered 401, each followed by its
\* re-authentication, and which returned False
C8_Witness ==
    /\ UpdateCall
    /\ CallReturned
    /\ Cardinality(Reauths) >= 2
    /\ result = "False"

\* C8 as stated: one re-authentication in total within one call.
C8_Original == UpdateCall => Cardinality(Reauths) <= 1

Posts == {i \in DOMAIN calllog : calllog[i].req = "POST"}
ListAnswered == \E i \in DOMAIN calllog : calllog[i].req = "GET" /\ calllog[i].resp = "200"

\* C9: once the device is present in the backend, under its id or as the row
\* an earlier ensure_device_exists created for the descriptor, a later
\* ensure_device_exists issues no create call.  Stated here for the calls
\* whose list request was answered 200.
C9_NoSecondCreate ==
    (EnsureCall /\ ListAnswered /\ (atList.id_in_backend \/ atList.created_before))
        => Posts = {}

\* C10: ensure_device_exists issues a create call only when the backend's
\* devices do not contain the device's id, whatever the list request was
\* answered.
C10_CreateOnlyIfAbsent ==
    (EnsureCall /\ Posts # {}) => ~atList.id_in_backend

\* C20: every list, create and update request the client sends carries the
\* Authorization header, also after an authenticate() that failed.
C20_RequestsAuthorized ==
    \A i \in DOMAIN calllog :
        calllog[i].req \in {"GET", "POST", "PUT"} => calllog[i].auth

-----------------------------------------------------------------------------
(***************************************************************************)
(* The agent: main(), start(), stop() and the monitor_device tasks.  A task *)
(* is followed from one await to the next; task[d].pc names the await it   *)
(* is suspended at:                                                        *)
(*   "created"   created by start(), not run yet                           *)
(*   "enter"     APIClient.__aenter__ (authenticate)                       *)
(*   "ensure"    ensure_device_exists                                      *)
(*   "check"     the check_device calls of a cycle                         *)
(*   "push"      update_device                                             *)
(*   "sleep"     asyncio.sleep(poll_interval)                              *)
(*   "cooldown"  asyncio.sleep(60) of the except branch                    *)
(*   "closing"   APIClient.__aexit__ (session.close)                       *)
(* and "done", "cancelled", "failed" once it has finished.                 *)
(* asyncio.CancelledError is a BaseException (Python 3.8 and later): none  *)
(* of the `except Exception` clauses catches it.                           *)
(***************************************************************************)

Finished == {"done", "cancelled", "failed"}

\* the awaits inside a polling cycle: probing (and aggregating), pushing
MidCycle == {"check", "push"}

\* `while self.running:` at the top of the loop; leaving the loop leaves the
\* `async with`
LoopTest(t) ==
    IF running
    THEN [t EXCEPT !.pc = "check", !.cycles = @ + 1]
    ELSE [t EXCEPT !.pc = "closing"]

\* (mutation) the exception of an iteration ends the loop
IterationRaised_Exit(t) == [t EXCEPT !.pc = "closing", !.faults = @ + 1]

\* `except Exception as e:` of the loop: log, then asyncio.sleep(60)
IterationRaised(t) == [t EXCEPT !.pc = "cooldown", !.faults = @ + 1]

\* the gather future takes the exception of the first child that finishes
\* with one (a cancelled child counts as CancelledError)
GatherSees(how) ==
    gatherExc' = IF gatherExc = "none" /\ how \in {"cancelled", "failed"}
                 THEN how ELSE gatherExc

AgentFrame == UNCHANGED <<probeVars, combineVars, clientVars, pollVars>>

\* the configuration a started agent has: one ping-monitored device type,
\* the other parts of the model at rest
AgentInit ==
    /\ SNMP_AVAILABLE = FALSE
    /\ devType = "generic"
    /\ monitoring_methods = <<"ping">>
    /\ ProbesFresh
    /\ NoCycle
    /\ NoClient
    /\ NoAgent
    /\ NoPoll

\* start(): running = True, a task per device, then gather
Start ==
    /\ startPc = "idle"
    /\ startPc' = "gather"
    /\ running' = TRUE
    /\ task' = [d \in Devices |-> [NoTask EXCEPT !.pc = "created"]]
    /\ UNCHANGED <<gatherExc, mainStopped, signalled>>
    /\ AgentFrame

\* stop(): running = False, cancel() on every task that is not done
Stopped ==
    /\ running' = FALSE
    /\ task' = [d \in Devices |->
                   IF task[d].pc \in Finished THEN task[d]
                   ELSE [task[d] EXCEPT !.cancel = TRUE]]

\* SIGINT or SIGTERM while the agent runs: _signal_handler calls stop()
Signal ==
    /\ startPc = "gather"
    /\ ~signalled
    /\ signalled' = TRUE
    /\ Stopped
    /\ UNCHANGED <<startPc, gatherExc, mainStopped>>
    /\ AgentFrame

Runs(d) == task[d].pc \notin Finished /\ ~task[d].cancel

\* the task's first step: `async with APIClient(...)`, where __aenter__
\* makes the aiohttp session (which may raise: the exception leaves
\* monitor_device) and awaits authenticate
TaskStart(d) ==
    /\ Runs(d)
    /\ task[d].pc = "created"
    /\ \E raises \in BOOLEAN :
        IF raises
        THEN task' = [task EXCEPT ![d].pc = "failed"] /\ GatherSees("failed")
        ELSE /\ task' = [task EXCEPT ![d].pc = "enter", ![d].session = "open"]
             /\ UNCHANGED gatherExc
    /\ UNCHANGED <<running, startPc, mainStopped, signalled>>
    /\ AgentFrame

\* authenticate has returned (it catches every Exception)
TaskEntered(d) ==
    /\ Runs(d)
    /\ task[d].pc = "enter"
    /\ task' = [task EXCEPT ![d].pc = "ensure"]
    /\ UNCHANGED <<running, startPc, gatherExc, mainStopped, signalled>>
    /\ AgentFrame

\* ensure_device_exists has returned (it catches every Exception)
TaskEnsured(d) ==
    /\ Runs(d)
    /\ task[d].pc = "ensure"
    /\ task[d].cycles < MaxCycles
    /\ task' = [task EXCEPT ![d] = LoopTest(@)]
    /\ UNCHANGED <<running, startPc, gatherExc, mainStopped, signalled>>
    /\ AgentFrame

\* the probes have been checked and their results combined, or something in
\* between has raised
TaskChecked(d) ==
    /\ Runs(d)
    /\ task[d].pc = "check"
    /\ \E raises \in BOOLEAN :
        IF raises
        THEN task[d].faults < MaxFaults /\ task' = [task EXCEPT ![d] = IterationRaised(@)]
        ELSE task' = [task EXCEPT ![d].pc = "push"]
    /\ UNCHANGED <<running, startPc, gatherExc, mainStopped, signalled>>
    /\ AgentFrame

\* update_device has returned, or the rest of the iteration has raised
TaskPushed(d) ==
    /\ Runs(d)
    /\ task[d].pc = "push"
    /\ \E raises \in BOOLEAN :
        IF raises
        THEN task[d].faults < MaxFaults /\ task' = [task EXCEPT ![d] = IterationRaised(@)]
        ELSE task' = [task EXCEPT ![d].pc = "sleep"]
    /\ UNCHANGED <<running, startPc, gatherExc, mainStopped, signalled>>
    /\ AgentFrame

\* the poll interval is over
TaskSlept(d) ==
    /\ Runs(d)
    /\ task[d].pc = "sleep"
    /\ task[d].cycles < MaxCycles
    /\ task' = [task EXCEPT ![d] = LoopTest(@)]
    /\ UNCHANGED <<running, startPc, gatherExc, mainStopped, signalled>>
    /\ AgentFrame

\* the cool-down is over
TaskCooled(d) ==
    /\ Runs(d)
    /\ task[d].pc = "cooldown"
    /\ task[d].cycles < MaxCycles
    /\ task' = [task EXCEPT ![d] = LoopTest(@)]
    /\ UNCHANGED <<running, startPc, gatherExc, mainStopped, signalled>>
    /\ AgentFrame

\* how a task that has left the `async with` finishes
Outcome(t) == IF t.cut # "none" THEN "cancelled" ELSE "done"

\* __aexit__ has closed the session, or session.close() has raised
TaskClosed(d) ==
    /\ Runs(d)
    /\ task[d].pc = "closing"
    /\ \E raises \in BOOLEAN :
        LET how == IF raises THEN "failed" ELSE Outcome(task[d]) IN
        /\ task' = [task EXCEPT ![d].pc = how,
                                 ![d].session = IF raises THEN @ ELSE "closed"]
        /\ GatherSees(how)
    /\ UNCHANGED <<running, startPc, mainStopped, signalled>>
    /\ AgentFrame

\* the pending cancel() is delivered: CancelledError is thrown into the task
\* at the await it is suspended at. Inside the `async with` it unwinds
\* through __aexit__; before it (or in __aexit__ itself) the task ends there.
TaskCancelled(d) ==
    /\ task[d].pc \notin Finished
    /\ task[d].cancel
    /\ LET how == IF task[d].pc \in {"created", "enter", "closing"}
                  THEN "cancelled" ELSE "closing" IN
        /\ task' = [task EXCEPT ![d].pc = how, ![d].cancel = FALSE, ![d].cut = task[d].pc]
        /\ GatherSees(how)
    /\ UNCHANGED <<running, startPc, mainStopped, signalled>>
    /\ AgentFrame

\* start() resumes from gather: with the results when all children returned,
\* with CancelledError (caught, start returns), or with the exception of a
\* child (not caught, start raises into main)
GatherResumes ==
    /\ startPc = "gather"
    /\ \/ gatherExc = "none" /\ (\A d \in Devices : task[d].pc = "done")
          /\ startPc' = "returned"
       \/ gatherExc = "cancelled" /\ startPc' = "returned"
       \/ gatherExc = "failed" /\ startPc' = "raised"
    /\ UNCHANGED <<running, task, gatherExc, mainStopped, signalled>>
    /\ AgentFrame

\* main(): start() has returned or raised; `finally: agent.stop()`
MainFinally ==
    /\ startPc \in {"returned", "raised"}
    /\ ~mainStopped
    /\ mainStopped' = TRUE
    /\ Stopped
    /\ UNCHANGED <<startPc, gatherExc, signalled>>
    /\ AgentFrame

AgentNext ==
    \/ Start
    \/ Signal
    \/ \E d \in Devices :
        \/ TaskStart(d) \/ TaskEntered(d) \/ TaskEnsured(d) \/ TaskChecked(d)
        \/ TaskPushed(d) \/ TaskSlept(d) \/ TaskCooled(d) \/ TaskClosed(d)
        \/ TaskCancelled(d)
    \/ GatherResumes
    \/ MainFinally

SpecAgent == AgentInit /\ [][AgentNext]_vars

-----------------------------------------------------------------------------
(* Properties of the agent (SpecAgent) *)

\* C11: after stop() or a shutdown signal no task is interrupted in the
\* middle of a polling cycle: a task that is probing, aggregating or pushing
\* completes the cycle and exits at the loop boundary.
C11_CooperativeShutdown ==
    \A d \in Devices : task[d].cut \notin MidCycle

\* C12: at shutdown (a signal has called stop()) start() returns only after
\* every device task it created has finished.  Stated for the returns that
\* come after every task has received its cancellation.
C12_StartWaitsForTasks ==
    (signalled /\ startPc = "returned" /\ \A d \in Devices : ~task[d].cancel)
        => \A d \in Devices : task[d].pc \in Finished

\* C13: while no shutdown has been requested, a fault in one device's task
\* does not cancel or end the polling loop of another device: no cancel() is
\* pending on or has been delivered to any task.
C13_FaultIsolation ==
    ~signalled => \A d \in Devices : ~task[d].cancel /\ task[d].cut = "none"

\* C14: an iteration that raises takes the task to the 60-second cool-down,
\* and from the cool-down the task starts a new cycle for the same device
\* unless a cancel() is pending on it.
C14_CooldownThenResume ==
    [][\A d \in Devices :
          /\ task'[d].faults > task[d].faults => task'[d].pc = "cooldown"
          /\ (task[d].pc = "cooldown" /\ task'[d].pc # "cooldown" /\ ~task[d].cancel)
                => (task'[d].pc = "check" /\ task'[d].cycles = task[d].cycles + 1)]_vars

\* C14 witness: a task whose iteration raised is in a new cycle, no shutdown
C14_Witness ==
    \E d \in Devices :
        /\ task[d].faults >= 1
        /\ task[d].pc = "check"
        /\ task[d].cycles >= 2
        /\ running
        /\ ~signalled

-----------------------------------------------------------------------------
(* Properties of the client's token handling and retry loops (SpecClient) *)

\* the head of update_device (_ensure_authenticated) is behind the call
PastHead == UpdateCall /\ pc # "update_auth"

\* C21: an update_device call made with a token from a successful
\* authenticate(): before token_expires (expiry minus the 300 s margin) it
\* sends no login unless a PUT was answered 401; at or after token_expires it
\* sends exactly one login before its first PUT.
C21_ProactiveReauth ==
    (PastHead /\ op.had_token) =>
        IF op.before_expiry
        THEN \A i \in DOMAIN calllog :
                 calllog[i].req = "LOGIN" =>
                     i > 1 /\ calllog[i - 1].req = "PUT" /\ calllog[i - 1].resp = "401"
        ELSE /\ calllog # << >>
             /\ calllog[1].req = "LOGIN"
             /\ Len(calllog) >= 2 => calllog[2].req = "PUT"

\* C21 witness: a call made at or after token_expires logged in once and
\* then sent its PUT; the token came from an earlier successful login
C21_Witness ==
    /\ PastHead
    /\ op.had_token
    /\ ~op.before_expiry
    /\ now >= 1
    /\ Len(calllog) >= 2
    /\ calllog[1].req = "LOGIN"
    /\ calllog[2].req = "PUT"

Requests == {i \in DOMAIN calllog : calllog[i].req \in {"GET", "POST", "PUT"}}

\* C23: every backend operation retries a failed attempt until the attempt
\* count is reached, waiting the retry delay between two consecutive attempts:
\* two requests of the same call have a sleep between them, and a call that
\* has failed has made retry_attempts attempts.
C23_RetryWithDelay ==
    /\ \A i, j \in Requests :
           (i < j /\ calllog[i].req = calllog[j].req) =>
               \E k \in DOMAIN calllog : i < k /\ k < j /\ calllog[k].req = "SLEEP"
    /\ (CallReturned /\ result = "False") =>
           \A i \in Requests :
               Cardinality({j \in Requests : calllog[j].req = calllog[i].req})
                   = retry_attempts

\* C24: a list-devices or create-device request answered 401 while attempts
\* remain is followed by a re-authentication and by the same request again.
C24_ReauthOnEveryOperation ==
    (EnsureCall /\ CallReturned /\ retry_attempts >= 2) =>
        \A i \in DOMAIN calllog :
            (calllog[i].req \in {"GET", "POST"} /\ calllog[i].resp = "401") =>
                /\ Len(calllog) >= i + 2
                /\ calllog[i + 1].req = "LOGIN"
                /\ calllog[i + 2].req = calllog[i].req

\* C22: the client's HTTP session is closed on every exit path of a device
\* task (normal loop exit, an exception, cancellation), a cancellation during
\* the initial authentication of __aenter__ included: a task that has ended,
\* other than inside __aexit__ itself, has no open session.
C22_SessionClosed ==
    \A d \in Devices :
        (task[d].pc \in {"done", "cancelled"} /\ task[d].cut # "closing") =>
            task[d].session # "open"

-----------------------------------------------------------------------------
(* The aggregated error (SpecCombine) *)

\* the samples of the cycle that carry a non-empty error, in probe order
Failing == SelectSeq(results, LAMBDA r : r.last_error # None /\ r.last_error # "")

\* C26: the aggregated sample's error is absent exactly when no contributing
\* sample has a non-empty error; otherwise it is the non-empty per-probe error
\* strings, in probe order, joined with "; ".
C26_ErrorsJoined ==
    Aggregated =>
        /\ combined.last_error = None <=> Failing = << >>
        /\ Len(Failing) = 1 => combined.last_error = Failing[1].last_error
        /\ Len(Failing) = 2 =>
               combined.last_error = Failing[1].last_error \o "; " \o Failing[2].last_error
        /\ Len(Failing) = 3 =>
               combined.last_error = Failing[1].last_error \o "; " \o Failing[2].last_error
                                         \o "; " \o Failing[3].last_error
        /\ Len(Failing) <= 3

\* C26 witness: three probes, the first and the third failed with different
\* errors, the second did not fail
C26_Witness ==
    /\ Aggregated
    /\ Len(results) = 3
    /\ Len(Failing) = 2
    /\ results[2].last_error = None
    /\ results[1].last_error # results[3].last_error
    /\ combined.last_error = results[1].last_error \o "; " \o results[3].last_error

-----------------------------------------------------------------------------
(* load_configuration, setup_monitors, start(), and the polling loop of every
   device step by step. No shutdown here: running stays True. *)

\* the [device_*] sections a configuration file is made of: one lacking a
\* required option (name, type, ip_address, location, monitoring_methods),
\* one with enabled = false, one naming no method setup_monitors knows, and
\* one with two probes
Sections ==
    {[complete |-> FALSE, enabled |-> TRUE, methods |-> <<"ping", "http">>],
     [complete |-> TRUE, enabled |-> FALSE, methods |-> <<"ping", "http">>],
     [complete |-> TRUE, enabled |-> TRUE, methods |-> <<"telnet">>],
     [complete |-> TRUE, enabled |-> TRUE, methods |-> <<"ping", "http">>]}

\* (mutation) the exception of a section leaves the loop over the sections
AfterLoadError_Abort(n) == NumDevices

\* load_configuration, a section raised: logged, the loop goes on
AfterLoadError(n) == n

\* setup_monitors: a monitor per known method, in the order of the list
setup_monitors(methods) == SelectSeq(methods, LAMBDA x : x \in Kinds)

\* (mutation) the monitors of a device visited last first
NextProbe_Reversed(d, n) == monitors[d][Len(monitors[d]) - n]

\* `for monitor in monitors`: the monitor checked after n results
NextProbe(d, n) == monitors[d][n + 1]

\* (mutation) consecutive_failures kept once per probe kind, for all devices
CountersAfter_Shared(d, kind, cf) ==
    [e \in Devices |-> [counters[e] EXCEPT ![kind] = cf]]

\* self.consecutive_failures of the monitor of device d and kind set to cf
CountersAfter(d, kind, cf) == [counters EXCEPT ![d][kind] = cf]

\* (mutation) monitor_device without its `if not monitors: return`
HasMonitors_Unchecked(d) == TRUE

\* monitor_device: `if not monitors` is false
HasMonitors(d) == monitors[d] # << >>

\* (mutation) a failed push leaves the loop
AfterPush_FailureEnds(success) == IF success THEN "sleep" ELSE "returned"

\* monitor_device after update_device: `if not success` only logs
AfterPush(success) == "sleep"

\* the outcomes a check of the loop is drawn from
PollPingOutcomes ==
    {o \in PingOutcomes : o.kind = "timeout" \/ (o.kind = "exit0" /\ o.parsed_time = 234)}

PollHttpOutcomes ==
    {o \in HttpOutcomes :
        \/ o.kind = "status" /\ o.elapsed = 310
        \/ o.kind = "json" /\ o.elapsed = 310 /\ o.data = [cpu_usage |-> 900]}

\* the sample check_device of the monitor of `kind` returns, its counter at cf
PollSamples(kind, cf) ==
    IF kind = "ping"
    THEN {[sample |-> PingSample(cf, o), cf |-> FailuresAfter(cf, PingError(o))] :
              o \in PollPingOutcomes}
    ELSE {[sample |-> HttpSample(cf, devType, o), cf |-> FailuresAfter(cf, HttpError(o))] :
              o \in PollHttpOutcomes}

\* the top of `while self.running`, running True: results = [], the first
\* monitor's check_device is awaited; with no monitor the aggregation of []
\* is None, update_device is skipped and the poll interval is slept
LoopTop(d, t) ==
    IF monitors[d] = << >>
    THEN [t EXCEPT !.pc = IF combine_monitoring_results(<< >>).none THEN "sleep" ELSE "push",
                   !.cycles = @ + 1,
                   !.results = << >>,
                   !.log = @ \o <<"combine", "sleep">>]
    ELSE [t EXCEPT !.pc = "check",
                   !.cycles = @ + 1,
                   !.results = << >>,
                   !.log = Append(@, NextProbe(d, 0))]

\* the first device is followed through MaxCycles iterations of its loop, the
\* devices polled beside it through one
CycleBound(d) == IF d = 1 THEN MaxCycles ELSE 1

PollInit ==
    /\ SNMP_AVAILABLE = TRUE
    /\ devType = "server"
    /\ monitoring_methods = <<"ping", "http">>
    /\ ProbesFresh
    /\ NoCycle
    /\ NoClient
    /\ NoAgent
    /\ config \in [api : BOOLEAN, sections : [Devices -> Sections]]
    /\ loaded = 0
    /\ devices = {}
    /\ monitors = [d \in Devices |-> << >>]
    /\ counters = [d \in Devices |-> [k \in Kinds |-> 0]]
    /\ poll = [d \in Devices |-> NoPolling]

PollFrame == UNCHANGED <<probeVars, combineVars, clientVars>>

\* load_configuration: one turn of the loop over the sections
LoadSection ==
    /\ loaded < NumDevices
    /\ LET d == loaded + 1
           section == config.sections[d] IN
        IF ~section.complete
        THEN /\ loaded' = AfterLoadError(d)
             /\ UNCHANGED <<devices, monitors>>
        ELSE /\ loaded' = d
             /\ devices' = IF section.enabled THEN devices \cup {d} ELSE devices
             /\ monitors' = IF section.enabled
                            THEN [monitors EXCEPT ![d] = setup_monitors(section.methods)]
                            ELSE monitors
    /\ UNCHANGED <<config, counters, poll, agentVars>>
    /\ PollFrame

\* main() and start(): with a loaded device and an api section, a task per
\* loaded device
StartPolling ==
    /\ loaded = NumDevices
    /\ ~running
    /\ devices # {}
    /\ config.api
    /\ running' = TRUE
    /\ poll' = [d \in Devices |->
                    IF d \in devices THEN [poll[d] EXCEPT !.pc = "created"] ELSE poll[d]]
    /\ UNCHANGED <<config, loaded, devices, monitors, counters>>
    /\ UNCHANGED <<task, startPc, gatherExc, mainStopped, signalled>>
    /\ PollFrame

\* monitor_device up to its first check_device: without monitors it returns
PollBegin(d) ==
    /\ poll[d].pc = "created"
    /\ poll' = [poll EXCEPT ![d] =
                    IF HasMonitors(d) THEN LoopTop(d, @) ELSE [@ EXCEPT !.pc = "returned"]]
    /\ UNCHANGED <<config, loaded, devices, monitors, counters, agentVars>>
    /\ PollFrame

\* the awaited check_device returns its sample and the loop goes to the next
\* monitor or, after the last one, aggregates and calls update_device; or the
\* iteration raises and the except clause starts its sleep(60). A run of
\* errored checks of one monitor is followed through MaxCycles checks.
PollCheck(d) ==
    /\ poll[d].pc = "check"
    /\ LET t == poll[d]
           kind == NextProbe(d, Len(t.results)) IN
        \/ \E r \in PollSamples(kind, counters[d][kind]) :
            LET rs == Append(t.results, r.sample)
                combined_metrics == combine_monitoring_results(rs) IN
            /\ r.cf <= MaxCycles
            /\ counters' = CountersAfter(d, kind, r.cf)
            /\ poll' = [poll EXCEPT ![d] =
                   IF Len(rs) < Len(monitors[d])
                   THEN [t EXCEPT !.results = rs,
                                  !.log = Append(@, NextProbe(d, Len(rs)))]
                   ELSE IF ~combined_metrics.none
                   THEN [t EXCEPT !.pc = "push", !.results = << >>,
                                  !.log = @ \o <<"combine", "update">>]
                   ELSE [t EXCEPT !.pc = "sleep", !.results = << >>,
                                  !.log = @ \o <<"combine", "sleep">>]]
        \/ /\ t.faults < MaxFaults
           /\ poll' = [poll EXCEPT ![d] =
                  [t EXCEPT !.pc = "cooldown", !.faults = @ + 1, !.results = << >>,
                            !.log = Append(@, "raised")]]
           /\ UNCHANGED counters
    /\ UNCHANGED <<config, loaded, devices, monitors, agentVars>>
    /\ PollFrame

\* update_device has returned True or False (logged): the poll interval is
\* slept
PollPush(d) ==
    /\ poll[d].pc = "push"
    /\ \E success \in BOOLEAN :
        poll' = [poll EXCEPT ![d].pc = AfterPush(success),
                             ![d].success = IF success THEN "True" ELSE "False",
                             ![d].log = @ \o <<"returned", "sleep">>]
    /\ UNCHANGED <<config, loaded, devices, monitors, counters, agentVars>>
    /\ PollFrame

\* sleep(poll_interval) is over: the next iteration
PollSleep(d) ==
    /\ poll[d].pc = "sleep"
    /\ poll[d].cycles < CycleBound(d)
    /\ poll' = [poll EXCEPT ![d] = LoopTop(d, @)]
    /\ UNCHANGED <<config, loaded, devices, monitors, counters, agentVars>>
    /\ PollFrame

\* sleep(60) of the except clause is over: the next iteration
PollCooldown(d) ==
    /\ poll[d].pc = "cooldown"
    /\ poll[d].cycles < CycleBound(d)
    /\ poll' = [poll EXCEPT ![d] = LoopTop(d, @)]
    /\ UNCHANGED <<config, loaded, devices, monitors, counters, agentVars>>
    /\ PollFrame

PollNext ==
    \/ LoadSection
    \/ StartPolling
    \/ \E d \in Devices : PollBegin(d)
    \/ \E d \in Devices : PollCheck(d)
    \/ \E d \in Devices : PollPush(d)
    \/ \E d \in Devices : PollSleep(d)
    \/ \E d \in Devices : PollCooldown(d)

SpecPoll == PollInit /\ [][PollNext]_vars

-----------------------------------------------------------------------------
(* Properties of configuration loading and of the polling loops (SpecPoll) *)

\* the section of d has every required option and is enabled
ValidEnabled(d) == config.sections[d].complete /\ config.sections[d].enabled

\* C27: a descriptor that fails to load (a required option missing) is not
\* among the devices, has no monitors and gets no task, while every valid,
\* enabled descriptor of the same file, before or after it, is loaded and,
\* once start() has run, has its polling task.
C27_LoadIsolation ==
    /\ \A d \in 1..loaded :
           /\ d \in devices <=> ValidEnabled(d)
           /\ ~config.sections[d].complete => monitors[d] = << >>
           /\ ValidEnabled(d) => monitors[d] = setup_monitors(config.sections[d].methods)
    /\ \A d \in Devices : poll[d].pc # "none" => d \in devices
    /\ running => /\ loaded = NumDevices
                  /\ \A d \in Devices : ValidEnabled(d) => poll[d].pc # "none"

\* C27 witness: the first section lacks a required option, the one after it is
\* valid and its task is polling
C27_Witness ==
    /\ running
    /\ ~config.sections[1].complete
    /\ ValidEnabled(2)
    /\ poll[1].pc = "none"
    /\ poll[2].pc = "check"

FullCycle(d) == monitors[d] \o <<"combine", "update", "returned", "sleep">>

IsPrefix(p, q) == Len(p) <= Len(q) /\ SubSeq(q, 1, Len(p)) = p

Drop(q, n) == SubSeq(q, n + 1, Len(q))

\* log is a sequence of cycles of d: complete ones, ones cut by an exception
\* during a check, and at the end one in progress
RECURSIVE Cycles(_, _)
Cycles(d, log) ==
    \/ IsPrefix(log, FullCycle(d))
    \/ /\ IsPrefix(FullCycle(d), log)
       /\ Cycles(d, Drop(log, Len(FullCycle(d))))
    \/ \E n \in 1..Len(monitors[d]) :
           LET cut == Append(SubSeq(monitors[d], 1, n), "raised") IN
           /\ IsPrefix(cut, log)
           /\ Cycles(d, Drop(log, Len(cut)))

\* C28: one cycle at a time per device, each cycle in the order: every
\* monitor of the device once in configured order, aggregation, one
\* update_device call, its return, the poll-interval sleep; the first check of
\* the next cycle comes after the sleep (or after the exception that cut the
\* cycle), so never before update_device has returned.
C28_CycleOrder ==
    \A d \in Devices :
        /\ Cycles(d, poll[d].log)
        /\ poll[d].pc = "check" <=>
               (poll[d].log # << >> /\ poll[d].log[Len(poll[d].log)] \in Kinds)
        /\ poll[d].pc = "push" <=>
               (poll[d].log # << >> /\ poll[d].log[Len(poll[d].log)] = "update")

\* C28 witness: the first device is in its second cycle, after a complete
\* first one, while the second device is in the middle of its cycle
C28_Witness ==
    /\ Len(monitors[1]) = 2
    /\ poll[1].log = FullCycle(1) \o <<monitors[1][1], monitors[1][2]>>
    /\ poll[2].pc = "push"

\* C29: a check_device call changes only the consecutive-failure counter of
\* the monitor it is called on: a counter changes only in a step in which the
\* task of its device has its check of that kind return, and every other
\* counter, of the device's other kinds and of the other devices, is left as
\* it was.
C29_CounterFrame ==
    [][\A d \in Devices : \A k \in Kinds :
           counters'[d][k] # counters[d][k] =>
               /\ poll[d].pc = "check"
               /\ NextProbe(d, Len(poll[d].results)) = k
               /\ \A e \in Devices : \A j \in Kinds :
                      <<e, j>> # <<d, k>> => counters'[e][j] = counters[e][j]
               /\ \A e \in Devices \ {d} : poll'[e] = poll[e]]_vars

\* C29 witness: two devices polled side by side, the ping monitor of the one
\* has failed and that of the other has not, and the first device's http
\* monitor has its own count
C29_Witness ==
    /\ poll[1].pc # "none"
    /\ poll[2].pc # "none"
    /\ counters[1]["ping"] = 1
    /\ counters[2]["ping"] = 0
    /\ counters[1]["http"] = 0
    /\ counters[2]["http"] = 1

-----------------------------------------------------------------------------
(* Termination of update_device (SpecClientLive) *)

\* the client with every awaited step returning: no step that can be taken is
\* postponed forever
SpecClientLive == ClientSpecInit /\ [][ClientNext]_vars /\ WF_vars(ClientNext)

\* the PUT budget of an update_device call and what True means
UpdateBounded ==
    UpdateCall =>
        /\ Cardinality(Puts) <= retry_attempts
        /\ attempt <= retry_attempts
        /\ Len(calllog) <= 1 + 2 * retry_attempts
        /\ (CallReturned /\ result = "True") =>
               \E i \in Puts : calllog[i].resp = "200"
        /\ (CallReturned /\ result = "True") => calllog[Len(calllog)].resp = "200"

\* C31: every update_device call terminates after at most retry_attempts PUT
\* requests, whatever the answers of the backend (200, 401, other status,
\* transport error) and of the re-authentications, and it returns True only
\* if one of those PUTs was answered 200.
C31_UpdateTerminates ==
    /\ []UpdateBounded
    /\ (UpdateCall /\ ~CallReturned) ~> (UpdateCall /\ CallReturned)

\* C31 witness: a call that used every attempt, a 401 with a failed
\* re-authentication and a transport error among them, has returned False
C31_Witness ==
    /\ UpdateCall
    /\ CallReturned
    /\ result = "False"
    /\ retry_attempts = 3
    /\ Cardinality(Puts) = retry_attempts
    /\ \E i \in Puts : calllog[i].resp = "401"
    /\ \E i \in DOMAIN calllog : calllog[i].req = "SLEEP"

-----------------------------------------------------------------------------
(* The SNMP probe of an unreachable device (SpecProbe) *)

\* C32: with pysnmp, a check in which every SNMP read fails returns a sample
\* with its error set and increments the probe's failure counter, so that the
\* third such check in a row reports offline.
C32_UnreachableCounts ==
    (SNMP_AVAILABLE /\ Checked("snmp") /\ lastCall.failure = "unreachable") =>
        /\ Truthy(last.last_error)
        /\ consecutive_failures["snmp"] = lastCall.failures_before + 1
        /\ consecutive_failures["snmp"] >= max_failures => last.status = "offline"

-----------------------------------------------------------------------------
(* Measured and placeholder metrics in the aggregated sample (SpecCombine) *)

\* the metrics the ping probe measures
PingMeasured == {"latency", "packet_loss", "uptime"}

\* the value of k in the SNMP sample r is not read from the device: latency
\* and packet_loss never are, uptime is not when it is the type's default
SnmpStatic(r, k) ==
    \/ k \in {"latency", "packet_loss"}
    \/ /\ k \in DOMAIN device_defaults(devType)
       /\ r.metrics[k] = device_defaults(devType)[k]

\* C33: in the aggregated sample a metric the ping probe measured in the
\* cycle (latency, packet_loss, uptime) is not replaced by a placeholder or
\* per-type default of the SNMP sample of the same cycle.
C33_MeasuredNotReplaced ==
    Aggregated =>
        \A i, j \in DOMAIN results :
            (results[i].monitoring_method = "ping" /\ results[j].monitoring_method = "snmp") =>
                \A k \in (PingMeasured \cap DOMAIN results[i].metrics)
                             \cap DOMAIN results[j].metrics :
                    (/\ SnmpStatic(results[j], k)
                     /\ \A h \in DOMAIN results :
                            results[h].monitoring_method = "http" =>
                                k \notin DOMAIN results[h].metrics)
                        => combined.metrics[k] = results[i].metrics[k]

\* C34: in the aggregated sample of a cycle, a combined error goes with a
\* status other than online: a probe that reported an error pulls the device
\* to warning or worse.
C34_ErrorNotOnline ==
    Aggregated =>
        /\ combined.last_error # None => combined.status \in {"warning", "critical", "offline"}
        /\ \A i \in DOMAIN results :
               Truthy(results[i].last_error) =>
                   /\ results[i].status \in {"warning", "offline"}
                   /\ Rank(combined.status) <= Rank(results[i].status)

\* C34 witness: one probe of the cycle is online, another reported its first
\* error, and the aggregated sample is at warning with the error
C34_Witness ==
    /\ Aggregated
    /\ \E i, j \in DOMAIN results :
           /\ results[i].status = "online"
           /\ Truthy(results[j].last_error)
           /\ results[j].status = "warning"
    /\ combined.last_error # None
    /\ combined.status = "warning"

-----------------------------------------------------------------------------
(* The frame of the session state (SpecClient) *)

\* this step sent a request of kind req answered resp
Sent(req, resp) ==
    /\ Len(calllog') = Len(calllog) + 1
    /\ calllog'[Len(calllog')].req = req
    /\ calllog'[Len(calllog')].resp = resp

SessionStateChanged == token' # token \/ token_expires' # token_expires

\* C36: within one client, token and expiry change only in a step in which a
\* login was answered 200, and then to the new token and to now + expires_in
\* less the margin; a failed login leaves both as they were, and so does every
\* GET, POST and PUT whatever its answer.
C36_SessionStateFrame ==
    [][/\ (SessionStateChanged /\ pc' # "start") =>
              /\ Sent("LOGIN", "200")
              /\ token' = "token"
              /\ token_expires'.set
              /\ \E r \in LoginResponses :
                     r.ok /\ token_expires'.at = now + r.expires_in - TokenBuffer
       /\ Sent("LOGIN", "failed") => ~SessionStateChanged
       /\ \A req \in {"GET", "POST", "PUT"} :
              \A resp \in (GetResponses \cup PostResponses) \cup (PutResponses \cup {"200"}) :
                  Sent(req, resp) => ~SessionStateChanged]_vars

\* C36 witness: the re-authentication after a PUT answered 401 has failed and
\* the client still holds the token and expiry it had
C36_Witness ==
    /\ UpdateCall
    /\ Len(calllog) >= 2
    /\ calllog[Len(calllog) - 1].req = "PUT"
    /\ calllog[Len(calllog) - 1].resp = "401"
    /\ calllog[Len(calllog)].req = "LOGIN"
    /\ calllog[Len(calllog)].resp = "failed"
    /\ token = "token"
    /\ token_expires.set

-----------------------------------------------------------------------------
(* The classifier and the iteration order of the metric map (SpecProbe) *)

\* the keys of S one after the other, in some order
RECURSIVE SetToSeq(_)
SetToSeq(S) ==
    IF S = {} THEN << >>
    ELSE LET x == CHOOSE y \in S : TRUE IN <<x>> \o SetToSeq(S \ {x})

KeyOrders(S) ==
    {f \in [1..Cardinality(S) -> S] : \A i, j \in DOMAIN f : f[i] = f[j] => i = j}

\* iteration orders of the metric map: the metrics that have a threshold in
\* every order, the other metrics before them or after them
IterationOrders(metrics) ==
    LET limited == DOMAIN metrics \cap (DOMAIN critical_thresholds \cup DOMAIN warning_thresholds)
        others == SetToSeq(DOMAIN metrics \ limited) IN
    UNION {{others \o p, p \o others} : p \in KeyOrders(limited)}

SeveralBreaches ==
    Cardinality({metric \in DOMAIN last.metrics \cap DOMAIN warning_thresholds :
                     last.metrics[metric] >= warning_thresholds[metric]}) >= 2

\* C37: the status of an error-free sample is the one the two loops and the
\* response-time test give for every iteration order of the metric map, also
\* when several metrics are at or above thresholds at once; with an error it
\* depends on the counter alone.
C37_OrderIndependent ==
    lastCall.kind # None =>
        IF Truthy(last.last_error)
        THEN last.status \in {"warning", "offline"}
        ELSE \A order \in IterationOrders(last.metrics) :
                 ClassifyInOrder(order, last.metrics, last.response_time) = last.status

\* C37 witness: cpu_usage is at its critical threshold and memory_usage at its
\* warning threshold only, and the sample is critical
C37_Witness ==
    /\ ErrorFree
    /\ SeveralBreaches
    /\ "cpu_usage" \in DOMAIN last.metrics
    /\ "memory_usage" \in DOMAIN last.metrics
    /\ last.metrics["cpu_usage"] >= critical_thresholds["cpu_usage"]
    /\ last.metrics["memory_usage"] < critical_thresholds["memory_usage"]
    /\ Cardinality(IterationOrders(last.metrics)) >= 2
    /\ last.status = "critical"

-----------------------------------------------------------------------------
(* The polling loops without end (SpecPollLive) *)

\* the loop of d goes on past CycleBound(d): its next iteration, the history
\* of its steps started anew
PollOn(d) ==
    /\ poll[d].pc \in {"sleep", "cooldown"}
    /\ poll[d].cycles = CycleBound(d)
    /\ poll' = [poll EXCEPT ![d] =
                    LoopTop(d, [@ EXCEPT !.cycles = 0, !.faults = 0, !.log = << >>])]
    /\ UNCHANGED <<config, loaded, devices, monitors, counters, agentVars>>
    /\ PollFrame

PollLiveNext ==
    \/ LoadSection
    \/ StartPolling
    \/ \E d \in Devices : PollBegin(d)
    \/ \E d \in Devices : PollCheck(d)
    \/ \E d \in Devices : PollPush(d)
    \/ \E d \in Devices : PollSleep(d)
    \/ \E d \in Devices : PollCooldown(d)
    \/ \E d \in Devices : PollOn(d)

\* the step of the task of d that its returned await enables
TaskStep(d) ==
    \/ PollBegin(d) \/ PollCheck(d) \/ PollPush(d)
    \/ PollSleep(d) \/ PollCooldown(d) \/ PollOn(d)

\* every probe, backend call and sleep returns and the event loop resumes the
\* task that awaited it
SpecPollLive ==
    /\ PollInit
    /\ [][PollLiveNext]_vars
    /\ \A d \in Devices : WF_vars(TaskStep(d))

\* the agent runs and d is a loaded device with at least one monitor (once
\* true it stays true: no shutdown here)
Polled(d) == running /\ d \in devices /\ monitors[d] # << >>

\* the first check_device of a cycle of d is awaited
AtCycleStart(d) == poll[d].pc = "check" /\ poll[d].results = << >>

BetweenCycles(d) == poll[d].pc \in {"sleep", "cooldown"}

Updates(d) == {i \in DOMAIN poll[d].log : poll[d].log[i] = "update"}

\* C35: while the agent runs and every await returns, every loaded device with
\* a monitor starts polling cycles again and again, whatever errors, failed
\* pushes and iteration faults it and the other devices have; after a failed
\* push the loop goes on, and the failed sample is not sent again: no cycle
\* has more than one update_device call.
C35_PollsForever ==
    /\ \A d \in Devices : []<>(Polled(d) => AtCycleStart(d))
    /\ \A d \in Devices : []<>(Polled(d) => BetweenCycles(d))
    /\ [](\A d \in Devices : Cardinality(Updates(d)) <= poll[d].cycles)

\* C35 witness: after a failed push of the first device and an iteration
\* fault of the second, the first device has started its next cycle
C35_Witness ==
    /\ Polled(1)
    /\ Polled(2)
    /\ poll[1].success = "False"
    /\ poll[1].cycles = 2
    /\ AtCycleStart(1)
    /\ poll[2].faults >= 1
    /\ counters[1]["ping"] >= 1

=============================================================================
